---- MODULE Spec2Model ----
(***************************************************************************)
(* Verification model of the auditor scripts of automation-scripts         *)
(* (src/python).  These state machines share this module:                  *)
(*   SpecMetric  the CloudWatch metric-fetch helpers (pure functions)      *)
(*   SpecPage    the hand-written pagination loops                         *)
(*   Spec        one run of a mutating auditor script (region loop,        *)
(*               per-resource loop, capped remediation, exit)              *)
(*   SpecDecide  the per-resource decisions and the exit-code tails of     *)
(*               main(), each applied to one drawn input                   *)
(*   SpecPool    the TLS endpoint sweeper's worker pool                    *)
(*   SpecBaseline  repeated runs of the persisted-baseline detectors        *)
(* Each specification leaves the variables of the others untouched.        *)
(***************************************************************************)
EXTENDS Integers, Sequences, FiniteSets, TLC

VARIABLES
    \* ---- metric helpers
    mHelper,      \* which helper is called
    mResp,        \* what cw.get_metric_statistics does: a throw or a Datapoints list
    mRet,         \* what the helper returned (or that it raised)
    \* ---- pagination loops
    helper,       \* which listing helper runs
    data,         \* the backend's full result, in backend order
    out,          \* the helper's accumulator (out / urls / users / keys / tags)
    token,        \* the helper's continuation variable (token / marker), 0 = None
    pcP,          \* "loop" | "done" | "capped"
    callsP,       \* number of backend calls issued so far
    retP,         \* the value the helper returned once pcP = "done"
    \* ---- one run of an auditor script
    script,       \* which script runs
    args,         \* its parsed command line
    pc,           \* "list" | "items" | "done"
    ri,           \* index of the region the loop is at
    stage,        \* 1 | 2 : which of a region's listings is being processed
    left,         \* number of resources of the current listing not yet visited
    results,      \* results / findings / all_results
    tagged,       \* tagged / applied / tags_applied / tag_ops
    operated,     \* operated / stopped / deleted / delete_count / total_release_attempt
    to_stop,      \* EC2 auditor: instance ids queued for the region's stop batch
    rc,           \* process exit code, -1 while running
    backend,      \* the set of mutating calls that reached the backend
    listed,       \* resources the listings returned
    visited,      \* resources whose loop body ran to its end
    raisedAt,     \* resources at which a non-action call raised
    regionFate,   \* per region: "pending" | "scanned" | "listfail" | "listabort" |
                  \*             "cut" | "resabort"
    volumes,      \* snapshot auditor: "listed" | "empty" (list_volumes failed)
    \* ---- per-resource decisions and exit codes
    dFn,          \* which piece of code is applied
    dIn,          \* its input: the resource, the backend's answers, the flags
    dOut,         \* what it did or returned
    \* ---- TLS endpoint sweeper worker pool
    endpoints,    \* the endpoints given by --file and --endpoints, in input order
    workers,      \* --workers
    pcPool,       \* "load" | "scan" | "done"
    uniq,         \* load_endpoints' result: the endpoints without repetitions
    work_queue,   \* submitted probes no worker has taken yet
    running,      \* probes a worker thread is executing
    finished,     \* completed futures as_completed has not yielded yet: ep -> record
    pool_results, \* main's results list
    probes,       \* how often each endpoint was probed: ep -> count
    pool_rc,      \* process exit code, -1 while running
    \* ---- persisted-baseline detectors
    detector,         \* "notifier" | "fim" | "systemd"
    baseline,         \* the baseline file's content: item -> value ({} before the first save)
    world,            \* what the latest run found: item -> "absent" | value |
                      \* "unreadable" (also: the run ended before reading it)
    run_reports,      \* the items the latest run printed a change message for
    runs,             \* number of runs so far
    last_recorded,    \* per item, the value the detector last saved for it ("none": never)
    reported_changes  \* <<item, old, new>> reported by earlier runs and not saved since

metricVars == <<mHelper, mResp, mRet>>
pageVars == <<helper, data, out, token, pcP, callsP, retP>>
runVars == <<script, args, pc, ri, stage, left, results, tagged, operated, to_stop,
             rc, backend, listed, visited, raisedAt, regionFate, volumes>>
decideVars == <<dFn, dIn, dOut>>
poolVars == <<endpoints, workers, pcPool, uniq, work_queue, running, finished, pool_results,
              probes, pool_rc>>
baseVars == <<detector, baseline, world, run_reports, runs, last_recorded,
              reported_changes>>
vars == <<metricVars, pageVars, runVars, decideVars, poolVars, baseVars>>

None == "None"

RECURSIVE SumSeq(_)
SumSeq(s) == IF s = <<>> THEN 0 ELSE Head(s) + SumSeq(Tail(s))

RECURSIVE MaxSeq(_)
MaxSeq(s) == IF Len(s) = 1 THEN Head(s)
             ELSE LET m == MaxSeq(Tail(s)) IN IF Head(s) > m THEN Head(s) ELSE m

SeqsUpTo(S, n) == UNION {[1..k -> S] : k \in 0..n}

(***************************************************************************)
(* Part 1: metric-fetch helpers                                            *)
(***************************************************************************)

\* bounds of the metric inputs
MaxPoints == 2
MaxValue == 4

\* A datapoint is the value under the requested statistic key, or NoKey when the
\* datapoint lacks that key.
NoKey == 0 - 1
PointValues == {NoKey} \cup {v \in 0..MaxValue : v % 2 = 0}

\* The backend either raises (any exception / InvalidParameterValueException)
\* or answers with a Datapoints list.
ThrowAny == [throw |-> "Exception", pts |-> <<>>]
ThrowInvalid == [throw |-> "InvalidParameterValueException", pts |-> <<>>]
Answer(pts) == [throw |-> None, pts |-> pts]
MetricResps == {ThrowAny, ThrowInvalid} \cup {Answer(p) : p \in SeqsUpTo(PointValues, MaxPoints)}

FloatRet(v) == [kind |-> "float", val |-> v]
IntRet(v) == [kind |-> "int", val |-> v]
NoneRet == [kind |-> "None", val |-> 0]
Raised == [kind |-> "raised", val |-> 0]
EmptyList == [kind |-> "list", val |-> 0]
ListOf(n) == [kind |-> "list", val |-> n]
Pending == [kind |-> "pending", val |-> 0]

\* p.get(key, 0.0)
GetOr0(p) == IF p = NoKey THEN 0 ELSE p
Defaulted(pts) == [i \in 1..Len(pts) |-> GetOr0(pts[i])]
Present(pts) == SelectSeq(pts, LAMBDA p : p # NoKey)

\* aws-sqs-unused-queue-auditor.py cw_sum_metric
sqs_cw_sum_metric(resp) ==
    IF resp.throw # None THEN FloatRet(0)
    ELSE FloatRet(SumSeq(Defaulted(resp.pts)))

\* aws-sns-unused-topic-auditor.py cw_sum_metric
sns_cw_sum_metric(resp) ==
    IF resp.throw # None THEN FloatRet(0)
    ELSE FloatRet(SumSeq(Defaulted(resp.pts)))

\* aws-sqs-unused-queue-auditor.py cw_max_metric
sqs_cw_max_metric(resp) ==
    IF resp.throw # None THEN FloatRet(0)
    ELSE IF resp.pts = <<>> THEN FloatRet(0)
    ELSE FloatRet(MaxSeq(Defaulted(resp.pts)))

ec2_cw_avg_metric_zero_default(resp) ==
    IF resp.throw # None THEN FloatRet(0)
    ELSE IF resp.pts = <<>> THEN FloatRet(0)
    ELSE FloatRet(SumSeq(Defaulted(resp.pts)) \div Len(resp.pts))
\* aws-ec2-idle-instance-auditor.py cw_avg_metric
ec2_cw_avg_metric(resp) ==
    IF resp.throw # None THEN NoneRet
    ELSE IF resp.pts = <<>> THEN NoneRet
    ELSE FloatRet(SumSeq(Defaulted(resp.pts)) \div Len(resp.pts))

\* aws-ec2-idle-instance-auditor.py cw_sum_metric
ec2_cw_sum_metric(resp) ==
    IF resp.throw # None THEN NoneRet
    ELSE IF resp.pts = <<>> THEN NoneRet
    ELSE FloatRet(SumSeq(Defaulted(resp.pts)))

\* aws-rds-idle-instance-auditor.py cw_avg_metric
rds_cw_avg_metric(resp) ==
    IF resp.throw # None THEN NoneRet
    ELSE IF resp.pts = <<>> THEN NoneRet
    ELSE FloatRet(SumSeq(Defaulted(resp.pts)) \div Len(resp.pts))

\* aws-rds-idle-instance-auditor.py cw_sum_metric
rds_cw_sum_metric(resp) ==
    IF resp.throw # None THEN NoneRet
    ELSE IF resp.pts = <<>> THEN NoneRet
    ELSE FloatRet(SumSeq(Defaulted(resp.pts)))

\* aws-nat-gateway-idle-auditor.py cw_avg_metric
nat_cw_avg_metric(resp) ==
    IF resp.throw # None THEN FloatRet(0)
    ELSE IF resp.pts = <<>> THEN FloatRet(0)
    ELSE FloatRet(SumSeq(Defaulted(resp.pts)) \div Len(resp.pts))

\* aws-lambda-unused-function-auditor.py fetch_metric
\* (total starts as the int 0 and becomes a float once a Sum is added)
lambda_fetch_metric(resp) ==
    IF resp.throw # None THEN IntRet(0)
    ELSE IF Present(resp.pts) = <<>> THEN IntRet(0)
    ELSE FloatRet(SumSeq(Present(resp.pts)))

\* aws-rds-idle-instance-finder.py fetch_metric: only InvalidParameterValueException
\* is caught; the result is a list of values
rdsfinder_fetch_metric(resp) ==
    IF resp.throw = "InvalidParameterValueException" THEN EmptyList
    ELSE IF resp.throw # None THEN Raised
    ELSE ListOf(Len(Present(resp.pts)))

MetricHelpers == {"sqs.cw_sum_metric", "sqs.cw_max_metric", "sns.cw_sum_metric",
                  "ec2.cw_avg_metric",
                  "ec2.cw_sum_metric", "rds.cw_avg_metric", "rds.cw_sum_metric",
                  "nat.cw_avg_metric", "lambda.fetch_metric", "rdsfinder.fetch_metric"}

CallMetricHelper(h, resp) ==
    CASE h = "sqs.cw_sum_metric" -> sqs_cw_sum_metric(resp)
      [] h = "sqs.cw_max_metric" -> sqs_cw_max_metric(resp)
      [] h = "sns.cw_sum_metric" -> sns_cw_sum_metric(resp)
      [] h = "ec2.cw_avg_metric" -> ec2_cw_avg_metric(resp)
      [] h = "ec2.cw_sum_metric" -> ec2_cw_sum_metric(resp)
      [] h = "rds.cw_avg_metric" -> rds_cw_avg_metric(resp)
      [] h = "rds.cw_sum_metric" -> rds_cw_sum_metric(resp)
      [] h = "nat.cw_avg_metric" -> nat_cw_avg_metric(resp)
      [] h = "lambda.fetch_metric" -> lambda_fetch_metric(resp)
      [] h = "rdsfinder.fetch_metric" -> rdsfinder_fetch_metric(resp)

MetricIdle == mHelper = None /\ mResp = ThrowAny /\ mRet = Pending

MetricInit ==
    /\ mHelper \in MetricHelpers
    /\ mResp \in MetricResps
    /\ mRet = Pending

Fetch ==
    /\ mRet = Pending
    /\ mRet' = CallMetricHelper(mHelper, mResp)
    /\ UNCHANGED <<mHelper, mResp>>
    /\ UNCHANGED <<pageVars, runVars, decideVars, poolVars, baseVars>>

(***************************************************************************)
(* Part 2: pagination loops                                                *)
(***************************************************************************)

\* bounds of the paginated backend
PageSize == 2
MaxData == 4
MaxName == 2
MaxCalls == 4

\* A backend item is [name, key]: key is its position in the backend's order,
\* name is the sort key Route53 resumes by (several record sets can share a name).
Item(n, k) == [name |-> n, key |-> k]
IsSorted(ns) == \A i \in 1..(Len(ns) - 1) : ns[i] <= ns[i + 1]
DataSets == {[i \in 1..Len(ns) |-> Item(ns[i], i)] :
                ns \in {s \in SeqsUpTo(1..MaxName, MaxData) : IsSorted(s)}}

Min(a, b) == IF a < b THEN a ELSE b
NumPages(d) == IF Len(d) = 0 THEN 1 ELSE (Len(d) + PageSize - 1) \div PageSize

\* Token-style backend (NextToken / Marker / NextMarker): the token is the number
\* of pages already served; a response carries next = 0 (no token) on the last page.
ServeToken(d, tok) ==
    LET first == tok * PageSize + 1
        last == Min(Len(d), first + PageSize - 1)
    IN [items |-> SubSeq(d, first, last),
        next |-> IF last < Len(d) THEN tok + 1 ELSE 0,
        truncated |-> last < Len(d)]

\* Route53 ListResourceRecordSets: with StartRecordName alone the listing begins
\* at the first record set whose name is >= that name; NextRecordName is the name
\* of the first record set not returned.
FirstAtOrAfter(d, name) ==
    IF \E i \in 1..Len(d) : d[i].name >= name
    THEN CHOOSE i \in 1..Len(d) : d[i].name >= name /\ \A j \in 1..(i - 1) : d[j].name < name
    ELSE Len(d) + 1
ServeRRSets(d, startName) ==
    LET first == IF startName = 0 THEN 1 ELSE FirstAtOrAfter(d, startName)
        last == Min(Len(d), first + PageSize - 1)
    IN [items |-> SubSeq(d, first, last),
        next |-> IF last < Len(d) THEN d[last + 1].name ELSE 0,
        truncated |-> last < Len(d)]

\* dict comprehension {t["TagKey"]: t["TagValue"] for t in tags}: one entry per key,
\* at the position of the key's first occurrence
RECURSIVE DictOf(_)
DictOf(s) ==
    IF s = <<>> THEN <<>>
    ELSE LET init == DictOf(SubSeq(s, 1, Len(s) - 1))
             lastItem == s[Len(s)]
         IN IF \E i \in 1..Len(init) : init[i].key = lastItem.key
            THEN init ELSE Append(init, lastItem)

TokenHelpers == {"ebs.list_available_volumes", "sqs.list_queues"}
TruncatedHelpers == {"iam.list_users", "iam.list_access_keys"}
PageHelpers == TokenHelpers \cup TruncatedHelpers \cup {"kms.key_tags", "r53.list_rrsets"}

PageIdle ==
    /\ helper = None /\ data = <<>> /\ out = <<>>
    /\ token = 0 /\ pcP = "idle" /\ callsP = 0 /\ retP = <<>>

PageInit ==
    /\ helper \in PageHelpers
    /\ data \in DataSets
    /\ out = <<>> /\ token = 0 /\ pcP = "loop" /\ callsP = 0 /\ retP = <<>>

\* list_available_volumes / list_queues: while True: call; extend; token = NextToken;
\* break when there is none
TokenLoopStep ==
    /\ helper \in TokenHelpers /\ pcP = "loop" /\ callsP < MaxCalls
    /\ LET resp == ServeToken(data, token) IN
        /\ out' = out \o resp.items
        /\ token' = resp.next
        /\ callsP' = callsP + 1
        /\ IF resp.next = 0
           THEN pcP' = "done" /\ retP' = out \o resp.items
           ELSE pcP' = "loop" /\ retP' = retP
    /\ UNCHANGED <<helper, data>>
    /\ UNCHANGED <<metricVars, runVars, decideVars, poolVars, baseVars>>

\* list_users / list_access_keys: break when not IsTruncated, else marker = Marker
TruncatedLoopStep ==
    /\ helper \in TruncatedHelpers /\ pcP = "loop" /\ callsP < MaxCalls
    /\ LET resp == ServeToken(data, token) IN
        /\ out' = out \o resp.items
        /\ callsP' = callsP + 1
        /\ IF ~resp.truncated
           THEN pcP' = "done" /\ retP' = out \o resp.items /\ token' = token
           ELSE pcP' = "loop" /\ retP' = retP /\ token' = resp.next
    /\ UNCHANGED <<helper, data>>
    /\ UNCHANGED <<metricVars, runVars, decideVars, poolVars, baseVars>>

\* key_tags: the continuation read from NextMarker is sent back as NextToken, a
\* parameter ListResourceTags does not have (it takes Marker).  boto3 validates
\* a request against the service model and raises ParamValidationError on the
\* unknown parameter; the helper's `except Exception` then returns {}.
KeyTagsStep ==
    /\ helper = "kms.key_tags" /\ pcP = "loop" /\ callsP < MaxCalls
    /\ callsP' = callsP + 1
    /\ IF token # 0
       THEN /\ pcP' = "done" /\ retP' = <<>>
            /\ UNCHANGED <<out, token>>
       ELSE LET resp == ServeToken(data, 0) IN
            /\ out' = out \o resp.items
            /\ token' = resp.next
            /\ IF resp.next = 0
               THEN pcP' = "done" /\ retP' = DictOf(out \o resp.items)
               ELSE pcP' = "loop" /\ retP' = retP
    /\ UNCHANGED <<helper, data>>
    /\ UNCHANGED <<metricVars, runVars, decideVars, poolVars, baseVars>>

\* list_rrsets: break when not IsTruncated, else marker = NextRecordName, sent back
\* as StartRecordName (NextRecordType is not used)
RRSetsStep ==
    /\ helper = "r53.list_rrsets" /\ pcP = "loop" /\ callsP < MaxCalls
    /\ LET resp == ServeRRSets(data, token) IN
        /\ out' = out \o resp.items
        /\ callsP' = callsP + 1
        /\ IF ~resp.truncated
           THEN pcP' = "done" /\ retP' = out \o resp.items /\ token' = token
           ELSE pcP' = "loop" /\ retP' = retP /\ token' = resp.next
    /\ UNCHANGED <<helper, data>>
    /\ UNCHANGED <<metricVars, runVars, decideVars, poolVars, baseVars>>

\* the model stops following a loop after MaxCalls calls
PageCapped ==
    /\ pcP = "loop" /\ callsP >= MaxCalls
    /\ pcP' = "capped"
    /\ UNCHANGED <<helper, data, out, token, callsP, retP>>
    /\ UNCHANGED <<metricVars, runVars, decideVars, poolVars, baseVars>>

(***************************************************************************)
(* Part 3: one run of an auditor script                                    *)
(***************************************************************************)

\* bounds of a run
NRegions == 2
MaxItems == 2
MaxUsers == 3
MaxCap == 2

Caps == 0..MaxCap
Errs == {None, "err"}
Regions == 1..NRegions

Scripts == {"ebs", "ec2", "secrets", "sqs", "sns", "snapshot", "eip", "iam",
            "elasticache", "rollback"}
\* scripts whose main() loops over regions
MultiRegion == Scripts \ {"iam", "rollback"}
RegionsOf(s) == IF s \in MultiRegion THEN NRegions ELSE 1

\* argparse defaults of the flags a run leaves out (store_true flags are False);
\* the caps are always drawn from Caps
NoArgs == [apply |-> FALSE, snapshot_before_delete |-> FALSE, apply_tag |-> FALSE,
           apply_stop |-> FALSE, confirm_stop |-> FALSE, delete |-> FALSE,
           force_delete_dlq |-> FALSE, schedule_delete |-> FALSE, release |-> FALSE,
           deactivate |-> FALSE, json |-> FALSE, rollback_cmd |-> FALSE,
           max_apply |-> 0, max_tag |-> 0, max_stop |-> 0, max_delete |-> 0,
           max_release |-> 0]

ArgsOf(s) ==
    CASE s = "ebs" ->
           {[NoArgs EXCEPT !.apply = a, !.snapshot_before_delete = b, !.max_apply = m] :
               a \in BOOLEAN, b \in BOOLEAN, m \in Caps}
      [] s = "ec2" ->
           {[NoArgs EXCEPT !.apply_tag = a, !.apply_stop = b, !.confirm_stop = c,
                           !.max_tag = m, !.max_stop = n] :
               a \in BOOLEAN, b \in BOOLEAN, c \in BOOLEAN, m \in Caps, n \in Caps}
      [] s = "secrets" ->
           {[NoArgs EXCEPT !.apply_tag = a, !.schedule_delete = b, !.max_apply = m] :
               a \in BOOLEAN, b \in BOOLEAN, m \in Caps}
      [] s \in {"sqs", "sns"} ->
           {[NoArgs EXCEPT !.apply_tag = a, !.delete = b, !.force_delete_dlq = f,
                           !.max_apply = m, !.max_delete = n] :
               a \in BOOLEAN, b \in BOOLEAN, f \in (IF s = "sqs" THEN BOOLEAN ELSE {FALSE}),
               m \in Caps, n \in Caps}
      [] s = "snapshot" ->
           {[NoArgs EXCEPT !.delete = a, !.max_delete = m] : a \in BOOLEAN, m \in Caps}
      [] s = "eip" ->
           {[NoArgs EXCEPT !.release = a, !.max_release = m] : a \in BOOLEAN, m \in Caps}
      [] s = "iam" ->
           {[NoArgs EXCEPT !.deactivate = a, !.json = j] : a \in BOOLEAN, j \in BOOLEAN}
      [] s = "elasticache" ->
           {[NoArgs EXCEPT !.apply_tag = a, !.max_tag = m] : a \in BOOLEAN, m \in Caps}
      [] s = "rollback" ->
           {[NoArgs EXCEPT !.apply = a, !.rollback_cmd = c] : a \in BOOLEAN, c \in BOOLEAN}

\* the record a script builds for a reported resource, before any action
NewRec(id) ==
    [id |-> id, flagged |-> TRUE,
     tag_attempted |-> FALSE, tag_error |-> None,
     delete_attempted |-> FALSE, delete_error |-> None,
     stop_attempted |-> FALSE, stop_error |-> None,
     release_attempted |-> FALSE, release_error |-> None,
     deactivate_attempted |-> FALSE, deactivate_error |-> None,
     snapshot_error |-> None]

\* a mutating call that reached the backend
Call(op, id, err) == [op |-> op, id |-> id, ok |-> (err = None)]

CurId == <<ri, stage, left>>

\* Inputs that are not read on the path taken are fixed to one value, so that the
\* same step is not enumerated once per unread input.
Canonical(read, inputs, fixed) == read \/ inputs = fixed

RunIdle ==
    /\ script = None /\ args = NoArgs /\ pc = "idle" /\ ri = 0 /\ stage = 0 /\ left = 0
    /\ results = <<>> /\ tagged = 0 /\ operated = 0 /\ to_stop = <<>> /\ rc = 0 - 1
    /\ backend = {} /\ listed = {} /\ visited = {} /\ raisedAt = {}
    /\ regionFate = <<>> /\ volumes = None

RunInit ==
    /\ script \in Scripts
    /\ args \in ArgsOf(script)
    /\ pc = "list" /\ ri = 1 /\ stage = 1 /\ left = 0
    /\ results = <<>> /\ tagged = 0 /\ operated = 0 /\ to_stop = <<>> /\ rc = 0 - 1
    /\ backend = {} /\ listed = {} /\ visited = {} /\ raisedAt = {}
    /\ regionFate = [r \in 1..RegionsOf(script) |-> "pending"]
    /\ volumes = None

\* ---- frame helpers ------------------------------------------------------

\* the loop body ran to its end for resource id (a `continue` included)
ItemDone(id, res, tg, op, ts, be, raised) ==
    /\ results' = res /\ tagged' = tg /\ operated' = op /\ to_stop' = ts /\ backend' = be
    /\ visited' = visited \cup {id}
    /\ raisedAt' = IF raised THEN raisedAt \cup {id} ELSE raisedAt
    /\ left' = left - 1
    /\ UNCHANGED <<script, args, pc, ri, stage, rc, listed, regionFate, volumes>>

\* `continue` before any record is built
Skip(id) == ItemDone(id, results, tagged, operated, to_stop, backend, FALSE)

\* an exception leaves main(): the top-level handler prints ERROR and exits 1
Abort(fate) ==
    /\ pc' = "done" /\ rc' = 1
    /\ regionFate' = [regionFate EXCEPT ![ri] = fate]
    /\ UNCHANGED <<script, args, ri, stage, left, results, tagged, operated, to_stop,
                   backend, listed, visited, volumes>>

\* the region loop moves on to the next region
NextRegion(fate) ==
    /\ regionFate' = [regionFate EXCEPT ![ri] = fate]
    /\ ri' = ri + 1 /\ stage' = 1 /\ left' = 0 /\ pc' = "list"

\* ---- listing ------------------------------------------------------------

NewIds(r, st, n) == {<<r, st, k>> : k \in 1..n}

\* the most resources one listing returns (list_users for the IAM auditor)
MaxListed(s) == IF s = "iam" THEN MaxUsers ELSE MaxItems

\* what the scripts do when the region's listing call raises
\*   "continue": except Exception -> WARN, continue   (ebs 168-172, ec2 251-253,
\*               secrets 139-143, sqs 228-232, sns 200-204, snapshot 175-179, eip 117-121)
\*   "abort":    no handler around the call          (elasticache 161, iam 150)
OnListError(s, st) ==
    IF s \in {"iam"} \/ (s = "elasticache" /\ st = 2) THEN "abort" ELSE "continue"

\* list_replication_groups swallows its exception and returns []
ListCanRaise(s, st) == ~(s = "elasticache" /\ st = 1)

ListRegion ==
    /\ pc = "list" /\ ri <= RegionsOf(script) /\ script # "rollback"
    /\ \E raises \in BOOLEAN, n \in 0..MaxListed(script), volsFail \in BOOLEAN :
        /\ (raises => ListCanRaise(script, stage))
        /\ (volsFail => script = "snapshot")
        /\ IF raises
           THEN IF OnListError(script, stage) = "abort"
                THEN /\ Abort("listabort")
                     /\ raisedAt' = raisedAt
                ELSE /\ NextRegion("listfail")
                     /\ UNCHANGED <<script, args, results, tagged, operated, to_stop, rc,
                                    backend, listed, visited, raisedAt, volumes>>
           ELSE /\ pc' = "items" /\ left' = n
                /\ listed' = listed \cup NewIds(ri, stage, n)
                /\ volumes' = IF script = "snapshot"
                              THEN (IF volsFail THEN "empty" ELSE "listed") ELSE volumes
                /\ UNCHANGED <<script, args, ri, stage, results, tagged, operated, to_stop,
                               rc, backend, visited, raisedAt, regionFate>>
    /\ UNCHANGED <<metricVars, pageVars, decideVars, poolVars, baseVars>>

\* ---- EBS unattached-volume auditor ---------------------------------------

\* line 201: if args.apply and operated < args.max_apply
ebs_should_delete(a, op) == a.apply /\ op < a.max_apply

ebs_operated_success_only(op, act, err) == IF act /\ err = None THEN op + 1 ELSE op
\* line 211: operated += 1, whatever delete_volume returned
ebs_operated(op, act, err) == IF act THEN op + 1 ELSE op

EbsItem ==
    /\ script = "ebs" /\ pc = "items" /\ left > 0
    /\ \E passes \in BOOLEAN, snap_err \in Errs, del_err \in Errs :
        /\ Canonical(passes, <<snap_err, del_err>>, <<None, None>>)
        /\ LET id == CurId
               act == ebs_should_delete(args, operated)
               snap == act /\ args.snapshot_before_delete
               rec == IF act
                      THEN [NewRec(id) EXCEPT !.delete_attempted = TRUE,
                                              !.delete_error = del_err,
                                              !.snapshot_error = IF snap THEN snap_err ELSE None]
                      ELSE NewRec(id)
               be == backend
                     \cup (IF snap THEN {Call("create_snapshot", id, snap_err)} ELSE {})
                     \cup (IF act THEN {Call("delete", id, del_err)} ELSE {})
           IN IF ~passes THEN Skip(id)
              ELSE ItemDone(id, Append(results, rec), tagged,
                            ebs_operated(operated, act, del_err), to_stop, be, FALSE)
    /\ UNCHANGED <<metricVars, pageVars, decideVars, poolVars, baseVars>>

\* ---- EC2 idle-instance auditor -------------------------------------------

\* argparse defaults (--max-cpu-avg, --max-network-mb)
max_cpu_avg == 3
max_network_mb == 50
MiB == 1024 * 1024

CpuResps == {ThrowAny, Answer(<<2>>), Answer(<<4>>)}
NetResps == {Answer(<<>>), Answer(<<0>>), Answer(<<60 * MiB>>)}

\* line 214
metrics_missing(cpu_avg, net_in, net_out) ==
    cpu_avg = NoneRet \/ net_in = NoneRet \/ net_out = NoneRet

\* line 215: `args.treat-missing-metrics-idle` parses as the subtraction
\* args.treat - missing - metrics - idle; evaluating args.treat raises
\* AttributeError.  The `and` short-circuits when metrics_missing is False.
\* "raise" | "go"
missing_guard(missing) == IF missing THEN "raise" ELSE "go"

\* lines 218-222
ec2_idle(cpu_avg, net_in, net_out) ==
    LET cpu_v == IF cpu_avg # NoneRet THEN cpu_avg.val ELSE 0
        net_total_bytes == (IF net_in = NoneRet THEN 0 ELSE net_in.val)
                           + (IF net_out = NoneRet THEN 0 ELSE net_out.val)
    IN cpu_v <= max_cpu_avg /\ net_total_bytes <= max_network_mb * MiB

\* line 239
ec2_should_tag(a, tg) == a.apply_tag /\ tg < a.max_tag

ec2_should_queue_noconfirm(a, stopped) == a.apply_stop /\ stopped < a.max_stop
\* line 246
ec2_should_queue(a, stopped) == a.apply_stop /\ a.confirm_stop /\ stopped < a.max_stop

\* lines 243-244: if err is None: tagged += 1
ec2_tagged(tg, tag, err) == IF tag /\ err = None THEN tg + 1 ELSE tg

Ec2Item ==
    /\ script = "ec2" /\ pc = "items" /\ left > 0
    /\ \E passes \in BOOLEAN, cpu \in CpuResps, nin \in NetResps, nout \in NetResps,
          tag_err \in Errs :
        /\ Canonical(passes, <<cpu, nin, nout, tag_err>>,
                     <<Answer(<<2>>), Answer(<<0>>), Answer(<<0>>), None>>)
        /\ LET id == CurId
               cpu_avg == ec2_cw_avg_metric(cpu)
               net_in == ec2_cw_sum_metric(nin)
               net_out == ec2_cw_sum_metric(nout)
               missing == metrics_missing(cpu_avg, net_in, net_out)
               tag == ec2_should_tag(args, tagged)
               queue == ec2_should_queue(args, operated)
               rec == [NewRec(id) EXCEPT !.tag_attempted = tag,
                                         !.tag_error = IF tag THEN tag_err ELSE None,
                                         !.stop_attempted = queue]
           IN /\ Canonical(passes /\ ~missing /\ ec2_idle(cpu_avg, net_in, net_out) /\ tag,
                           <<tag_err>>, <<None>>)
              /\ IF ~passes THEN Skip(id)
                 ELSE IF missing_guard(missing) = "raise"
                 THEN \* caught by the region-level except (251-253): WARN, continue
                      /\ NextRegion("cut")
                      /\ raisedAt' = raisedAt \cup {id}
                      /\ UNCHANGED <<script, args, results, tagged, operated, to_stop, rc,
                                     backend, listed, visited, volumes>>
                 ELSE IF ~ec2_idle(cpu_avg, net_in, net_out) THEN Skip(id)
                 ELSE ItemDone(id, Append(results, rec),
                               ec2_tagged(tagged, tag, tag_err),
                               operated,
                               IF queue THEN Append(to_stop, id) ELSE to_stop,
                               backend \cup (IF tag THEN {Call("tag", id, tag_err)} ELSE {}),
                               FALSE)
    /\ UNCHANGED <<metricVars, pageVars, decideVars, poolVars, baseVars>>

ec2_batch_unsliced(ts, a, stopped) == ts
\* line 257: batch = to_stop[: (args.max_stop - stopped)]
ec2_batch(ts, a, stopped) == SubSeq(ts, 1, Min(Len(ts), a.max_stop - stopped))

SeqToSet(s) == {s[i] : i \in 1..Len(s)}

\* lines 256-265: the region's stop batch.  StopInstances fails as a whole when
\* the batch names an instance of another region.
Ec2StopBatch ==
    /\ script = "ec2" /\ pc = "items" /\ left = 0
    /\ IF to_stop # <<>> /\ args.apply_stop /\ args.confirm_stop /\ operated < args.max_stop
       THEN \E e \in Errs :
            LET batch == ec2_batch(to_stop, args, operated)
                foreign == \E i \in 1..Len(batch) : batch[i][1] # ri
                err == IF foreign THEN "err" ELSE e
            IN /\ backend' = backend \cup {Call("stop", batch[i], err) : i \in 1..Len(batch)}
               /\ results' = IF err # None
                             THEN [k \in 1..Len(results) |->
                                     IF results[k].id \in SeqToSet(batch)
                                        /\ results[k].stop_attempted
                                     THEN [results[k] EXCEPT !.stop_error = err]
                                     ELSE results[k]]
                             ELSE results
               /\ operated' = IF err = None THEN operated + Len(batch) ELSE operated
               /\ to_stop' = <<>>
       ELSE UNCHANGED <<backend, results, operated, to_stop>>
    /\ NextRegion("scanned")
    /\ UNCHANGED <<script, args, tagged, rc, listed, visited, raisedAt, volumes>>
    /\ UNCHANGED <<metricVars, pageVars, decideVars, poolVars, baseVars>>

\* ---- Secrets Manager stale-secret auditor --------------------------------

\* line 214 (tag) and line 221 (schedule delete) share the `applied` counter
secrets_should_tag(a, applied) == a.apply_tag /\ applied < a.max_apply
secrets_should_delete(a, applied) == a.schedule_delete /\ applied < a.max_apply

\* lines 218-219 and 225-226: if err is None: applied += 1
secrets_applied(applied, attempted, err) ==
    IF attempted /\ err = None THEN applied + 1 ELSE applied

SecretsItem ==
    /\ script = "secrets" /\ pc = "items" /\ left > 0
    /\ \E passes \in BOOLEAN, descRaises \in BOOLEAN, flagged \in BOOLEAN,
          tag_err \in Errs, del_err \in Errs :
        /\ Canonical(passes /\ ~descRaises /\ flagged, <<tag_err, del_err>>, <<None, None>>)
        /\ Canonical(passes, <<descRaises, flagged>>, <<FALSE, FALSE>>)
        /\ LET id == CurId
               tag == secrets_should_tag(args, tagged)
               applied1 == secrets_applied(tagged, tag, tag_err)
               del == secrets_should_delete(args, applied1)
               applied2 == secrets_applied(applied1, del, del_err)
               rec == [NewRec(id) EXCEPT !.tag_attempted = tag,
                                         !.tag_error = IF tag THEN tag_err ELSE None,
                                         !.delete_attempted = del,
                                         !.delete_error = IF del THEN del_err ELSE None]
               be == backend
                     \cup (IF tag THEN {Call("tag", id, tag_err)} ELSE {})
                     \cup (IF del THEN {Call("delete", id, del_err)} ELSE {})
           IN IF ~passes THEN Skip(id)
              ELSE IF descRaises
              THEN \* lines 163-166: describe_secret raised -> continue, no record
                   ItemDone(id, results, tagged, operated, to_stop, backend, TRUE)
              ELSE IF ~flagged THEN Skip(id)
              ELSE ItemDone(id, Append(results, rec), applied2, operated, to_stop, be, FALSE)
    /\ UNCHANGED <<metricVars, pageVars, decideVars, poolVars, baseVars>>

\* ---- SQS unused-queue auditor ---------------------------------------------

\* argparse defaults (--min-sent, --min-received)
min_sent == 0
min_received == 0

ActivityResps == {ThrowAny, Answer(<<2>>)}
DlqLookups == {"throw", "none", "some"}

\* list_dead_letter_sources: the number of source queues, 0 when the call raises
list_dead_letter_sources(lookup) == IF lookup = "some" THEN 1 ELSE 0

\* get_queue_attrs returns {} when the call raises; int(attrs.get(..., "0"))
queue_depth(attrsOk, depth) == IF attrsOk THEN depth ELSE 0

\* line 265, 270 (--max-oldest-age is not given)
sqs_flagged(sent_sum, recv_sum) == sent_sum.val <= min_sent /\ recv_sum.val <= min_received

sqs_should_tag(a, flagged, tags_applied) ==
    flagged /\ a.apply_tag /\ tags_applied < a.max_apply

\* line 297
can_delete(a, flagged, depth, is_dlq) ==
    flagged /\ depth = 0 /\ (a.force_delete_dlq \/ ~is_dlq)

\* line 298
sqs_should_delete(a, can, deleted) == a.delete /\ can /\ deleted < a.max_delete

\* lines 294-295 and 302-303: if err is None: tags_applied += 1 / deleted += 1
sqs_counter(c, attempted, err) == IF attempted /\ err = None THEN c + 1 ELSE c

SqsItem ==
    /\ script = "sqs" /\ pc = "items" /\ left > 0
    /\ \E passes \in BOOLEAN, attrsOk \in BOOLEAN, depth \in 0..1, lookup \in DlqLookups,
          sent \in ActivityResps, recv \in ActivityResps, tag_err \in Errs, del_err \in Errs :
        /\ Canonical(passes, <<attrsOk, depth, lookup, sent, recv, tag_err, del_err>>,
                     <<TRUE, 0, "none", ThrowAny, ThrowAny, None, None>>)
        /\ LET id == CurId
               is_dlq == list_dead_letter_sources(lookup) > 0
               flagged == sqs_flagged(sqs_cw_sum_metric(sent), sqs_cw_sum_metric(recv))
               tag == sqs_should_tag(args, flagged, tagged)
               can == can_delete(args, flagged, queue_depth(attrsOk, depth), is_dlq)
               del == sqs_should_delete(args, can, operated)
               rec == [NewRec(id) EXCEPT !.tag_attempted = tag,
                                         !.tag_error = IF tag THEN tag_err ELSE None,
                                         !.delete_attempted = del,
                                         !.delete_error = IF del THEN del_err ELSE None]
               be == backend
                     \cup (IF tag THEN {Call("tag", id, tag_err)} ELSE {})
                     \cup (IF del THEN {Call("delete", id, del_err)} ELSE {})
           IN /\ Canonical(passes /\ tag, <<tag_err>>, <<None>>)
              /\ Canonical(passes /\ del, <<del_err>>, <<None>>)
              /\ Canonical(passes /\ flagged /\ args.delete, <<attrsOk, lookup>>, <<TRUE, "none">>)
              /\ Canonical(passes /\ flagged /\ args.delete /\ attrsOk, <<depth>>, <<0>>)
              /\ IF ~passes THEN Skip(id)
                 ELSE ItemDone(id,
                            IF flagged THEN Append(results, rec) ELSE results,
                            sqs_counter(tagged, tag, tag_err),
                            sqs_counter(operated, del, del_err),
                            to_stop, be, FALSE)
    /\ UNCHANGED <<metricVars, pageVars, decideVars, poolVars, baseVars>>

\* ---- SNS unused-topic auditor ---------------------------------------------

\* argparse defaults (--min-published, --min-delivered)
min_published == 0
min_delivered == 0

\* line 229
sns_flagged(pub_sum, deliv_sum) ==
    pub_sum.val <= min_published /\ deliv_sum.val <= min_delivered

sns_should_tag(a, flagged, tags_applied) ==
    flagged /\ a.apply_tag /\ tags_applied < a.max_apply

\* lines 256-257
sns_should_delete(a, flagged, active_subs, deleted) ==
    a.delete /\ (flagged /\ active_subs = 0) /\ deleted < a.max_delete

\* lines 253-254 and 261-262: the same success-only counting
sns_counter(c, attempted, err) == IF attempted /\ err = None THEN c + 1 ELSE c

SnsItem ==
    /\ script = "sns" /\ pc = "items" /\ left > 0
    /\ \E passes \in BOOLEAN, subsRaises \in BOOLEAN, active_subs \in 0..1,
          pub \in ActivityResps, deliv \in ActivityResps, tag_err \in Errs, del_err \in Errs :
        /\ Canonical(passes /\ ~subsRaises, <<active_subs, pub, deliv, tag_err, del_err>>,
                     <<0, ThrowAny, ThrowAny, None, None>>)
        /\ Canonical(passes, <<subsRaises>>, <<FALSE>>)
        /\ LET id == CurId
               flagged == sns_flagged(sns_cw_sum_metric(pub), sns_cw_sum_metric(deliv))
               tag == sns_should_tag(args, flagged, tagged)
               del == sns_should_delete(args, flagged, active_subs, operated)
               rec == [NewRec(id) EXCEPT !.tag_attempted = tag,
                                         !.tag_error = IF tag THEN tag_err ELSE None,
                                         !.delete_attempted = del,
                                         !.delete_error = IF del THEN del_err ELSE None]
               be == backend
                     \cup (IF tag THEN {Call("tag", id, tag_err)} ELSE {})
                     \cup (IF del THEN {Call("delete", id, del_err)} ELSE {})
           IN /\ Canonical(passes /\ ~subsRaises /\ tag, <<tag_err>>, <<None>>)
              /\ Canonical(passes /\ ~subsRaises /\ del, <<del_err>>, <<None>>)
              /\ Canonical(passes /\ ~subsRaises /\ flagged /\ args.delete, <<active_subs>>, <<0>>)
              /\ IF ~passes THEN Skip(id)
                 ELSE IF subsRaises
                 THEN \* line 223: list_subscriptions_by_topic is not guarded
                      /\ Abort("resabort")
                      /\ raisedAt' = raisedAt \cup {id}
                 ELSE ItemDone(id,
                            IF flagged THEN Append(results, rec) ELSE results,
                            sns_counter(tagged, tag, tag_err),
                            sns_counter(operated, del, del_err),
                            to_stop, be, FALSE)
    /\ UNCHANGED <<metricVars, pageVars, decideVars, poolVars, baseVars>>

\* ---- orphaned EBS snapshot auditor ----------------------------------------

\* classify_snapshot (128-147): "OK" | "ORPHAN" | "OLD" | "ORPHAN+OLD"
classify_snapshot(volExists, vols, old) ==
    LET orphan == ~(vols = "listed" /\ volExists)
    IN IF orphan THEN (IF old THEN "ORPHAN+OLD" ELSE "ORPHAN")
       ELSE (IF old THEN "OLD" ELSE "OK")

\* line 200
snapshot_should_delete(a, delete_count) == a.delete /\ delete_count < a.max_delete

\* line 204: delete_count += 1, whatever delete_snapshot returned
snapshot_delete_count(c, del, err) == IF del THEN c + 1 ELSE c

SnapshotItem ==
    /\ script = "snapshot" /\ pc = "items" /\ left > 0
    /\ \E passes \in BOOLEAN, volExists \in BOOLEAN, old \in BOOLEAN, del_err \in Errs :
        /\ Canonical(passes, <<volExists, old, del_err>>, <<TRUE, FALSE, None>>)
        /\ LET id == CurId
               status == classify_snapshot(volExists, volumes, old)
               del == snapshot_should_delete(args, operated)
               rec == [NewRec(id) EXCEPT !.delete_attempted = del,
                                         !.delete_error = IF del THEN del_err ELSE None]
           IN IF ~passes \/ status = "OK" THEN Skip(id)
              ELSE ItemDone(id, Append(results, rec), tagged,
                            snapshot_delete_count(operated, del, del_err), to_stop,
                            backend \cup (IF del THEN {Call("delete", id, del_err)} ELSE {}),
                            FALSE)
    /\ UNCHANGED <<metricVars, pageVars, decideVars, poolVars, baseVars>>

\* ---- unused Elastic IP auditor --------------------------------------------

\* lines 144-147
eip_should_release(a, unused, excluded, total_release_attempt) ==
    unused /\ ~excluded /\ a.release /\ total_release_attempt < a.max_release

\* line 151: total_release_attempt += 1, whatever release_address returned
eip_release_attempt(c, rel, err) == IF rel THEN c + 1 ELSE c

EipItem ==
    /\ script = "eip" /\ pc = "items" /\ left > 0
    /\ \E unused \in BOOLEAN, excluded \in BOOLEAN, err \in Errs :
        LET id == CurId
            rel == eip_should_release(args, unused, excluded, operated)
            rec == [NewRec(id) EXCEPT !.flagged = unused,
                                      !.release_attempted = rel,
                                      !.release_error = IF rel THEN err ELSE None]
        IN ItemDone(id, Append(results, rec), tagged,
                    eip_release_attempt(operated, rel, err), to_stop,
                    backend \cup (IF rel THEN {Call("release", id, err)} ELSE {}),
                    FALSE)
    /\ UNCHANGED <<metricVars, pageVars, decideVars, poolVars, baseVars>>

\* ---- IAM access-key age auditor -------------------------------------------

\* line 175: there is no cap
iam_should_deactivate(a, key_status, status) ==
    key_status = "FLAGGED" /\ a.deactivate /\ status # "Inactive"

\* one user of list_users with at most one access key
IamUser ==
    /\ script = "iam" /\ pc = "items" /\ left > 0
    /\ \E included \in BOOLEAN, keysRaise \in BOOLEAN, hasKey \in BOOLEAN,
          key_status \in {"OK", "FLAGGED"}, status \in {"Active", "Inactive"}, err \in Errs :
        /\ Canonical(included /\ ~keysRaise /\ hasKey, <<key_status, status, err>>,
                     <<"OK", "Active", None>>)
        /\ Canonical(included, <<keysRaise, hasKey>>, <<FALSE, FALSE>>)
        /\ LET id == CurId
               deact == iam_should_deactivate(args, key_status, status)
               entry == [NewRec(id) EXCEPT !.flagged = (key_status = "FLAGGED"),
                                           !.deactivate_attempted = deact,
                                           !.deactivate_error = IF deact THEN err ELSE None]
           IN IF ~included THEN Skip(id)
              ELSE IF keysRaise
              THEN \* line 157: list_access_keys is not guarded
                   /\ Abort("resabort")
                   /\ raisedAt' = raisedAt \cup {id}
              ELSE IF ~hasKey THEN Skip(id)
              ELSE ItemDone(id, Append(results, entry), tagged,
                            IF deact /\ err = None THEN operated + 1 ELSE operated, to_stop,
                            backend \cup (IF deact THEN {Call("deactivate", id, err)} ELSE {}),
                            FALSE)
    /\ UNCHANGED <<metricVars, pageVars, decideVars, poolVars, baseVars>>

\* ---- ElastiCache snapshot-retention auditor -------------------------------

\* lines 152 and 180
elasticache_should_tag(a, tag_ops) == a.apply_tag /\ tag_ops < a.max_tag

\* lines 156-157: if err is None: tag_ops += 1
elasticache_tag_ops(c, tag, err) == IF tag /\ err = None THEN c + 1 ELSE c

\* a replication group (stage 1) or a manual snapshot (stage 2)
ElastiCacheItem ==
    /\ script = "elasticache" /\ pc = "items" /\ left > 0
    /\ \E flagged \in BOOLEAN, tag_err \in Errs :
        /\ Canonical(flagged, <<tag_err>>, <<None>>)
        /\ LET id == CurId
               tag == elasticache_should_tag(args, tagged)
               rec == [NewRec(id) EXCEPT !.tag_attempted = tag,
                                         !.tag_error = IF tag THEN tag_err ELSE None]
           IN IF ~flagged THEN Skip(id)
              ELSE ItemDone(id, Append(results, rec),
                            elasticache_tag_ops(tagged, tag, tag_err),
                            operated, to_stop,
                            backend \cup (IF tag THEN {Call("tag", id, tag_err)} ELSE {}),
                            FALSE)
    /\ UNCHANGED <<metricVars, pageVars, decideVars, poolVars, baseVars>>

\* after the replication groups comes list_snapshots (line 161); after the
\* snapshots the next region
ElastiCacheEnd ==
    /\ script = "elasticache" /\ pc = "items" /\ left = 0
    /\ IF stage = 1
       THEN /\ stage' = 2 /\ pc' = "list"
            /\ UNCHANGED <<ri, left, regionFate>>
       ELSE NextRegion("scanned")
    /\ UNCHANGED <<script, args, results, tagged, operated, to_stop, rc, backend,
                   listed, visited, raisedAt, volumes>>
    /\ UNCHANGED <<metricVars, pageVars, decideVars, poolVars, baseVars>>

\* ---- auto-rollback ---------------------------------------------------------

\* run_cmd (24-34): "skip" in dry-run, else the command is executed
run_cmd(apply) == IF ~apply THEN "skip" ELSE "exec"

\* monitor_log_file up to the first line holding the trigger text
Rollback ==
    /\ script = "rollback" /\ pc = "list"
    /\ \E logExists \in BOOLEAN, found \in BOOLEAN, returncode \in 0..1 :
        LET id == <<1, 1, 1>>
            exec == logExists /\ args.rollback_cmd /\ run_cmd(args.apply) = "exec"
        IN /\ rc' = IF ~logExists THEN 2
                    ELSE IF ~args.rollback_cmd THEN 3
                    ELSE IF ~exec THEN 0
                    ELSE IF ~found THEN 127
                    ELSE returncode
           /\ backend' = IF exec /\ found
                         THEN backend \cup {Call("rollback", id,
                                                 IF returncode = 0 THEN None ELSE "err")}
                         ELSE backend
           /\ pc' = "done"
           /\ regionFate' = [regionFate EXCEPT ![1] = "scanned"]
    /\ UNCHANGED <<script, args, ri, stage, left, results, tagged, operated, to_stop,
                   listed, visited, raisedAt, volumes>>
    /\ UNCHANGED <<metricVars, pageVars, decideVars, poolVars, baseVars>>

\* ---- end of a region's item loop (scripts without a per-region epilogue) --

EndRegion ==
    /\ script \notin {"ec2", "rollback", "elasticache"} /\ pc = "items" /\ left = 0
    /\ NextRegion("scanned")
    /\ UNCHANGED <<script, args, results, tagged, operated, to_stop, rc, backend,
                   listed, visited, raisedAt, volumes>>
    /\ UNCHANGED <<metricVars, pageVars, decideVars, poolVars, baseVars>>

\* ---- report and exit -----------------------------------------------------

AnyFlagged(res) == \E k \in 1..Len(res) : res[k].flagged

\* main()'s return value when neither --fail-on-findings nor --ci-exit-on-findings
\* is given; the IAM auditor has no such switch (lines 192-196, 217)
ExitCode(s, a, res) ==
    IF s = "iam"
    THEN IF a.json THEN (IF AnyFlagged(res) /\ ~a.deactivate THEN 2 ELSE 0)
         ELSE (IF ~AnyFlagged(res) THEN 0 ELSE 2)
    ELSE 0

Report ==
    /\ pc = "list" /\ ri > RegionsOf(script) /\ script # "rollback"
    /\ pc' = "done" /\ rc' = ExitCode(script, args, results)
    /\ UNCHANGED <<script, args, ri, stage, left, results, tagged, operated, to_stop,
                   backend, listed, visited, raisedAt, regionFate, volumes>>
    /\ UNCHANGED <<metricVars, pageVars, decideVars, poolVars, baseVars>>

RunNext ==
    \/ ListRegion
    \/ EbsItem
    \/ Ec2Item
    \/ Ec2StopBatch
    \/ SecretsItem
    \/ SqsItem
    \/ SnsItem
    \/ SnapshotItem
    \/ EipItem
    \/ IamUser
    \/ ElastiCacheItem
    \/ ElastiCacheEnd
    \/ Rollback
    \/ EndRegion
    \/ Report

(***************************************************************************)
(* Part 4: per-resource decisions and exit codes                           *)
(***************************************************************************)

NoInput == [kind |-> "none"]
NoOutput == [kind |-> "pending"]

DecideIdle == dFn = None /\ dIn = NoInput /\ dOut = NoOutput

\* ---- idle classification (EC2, RDS, NAT gateway) --------------------------

\* CloudWatch answers drawn for the classified metrics: a throw, no datapoints,
\* one datapoint, or two equal datapoints (so that every average is exact)
ObsResps(vals) ==
    {ThrowAny, Answer(<<>>)} \cup {Answer(<<v>>) : v \in vals}
                             \cup {Answer(<<v, v>>) : v \in vals}

\* EC2 auditor, lines 210-224, for one instance that passed the filters:
\* "raised" | "flagged" | "not_flagged"
ec2_classify(cpu, nin, nout, treat) ==
    LET cpu_avg == ec2_cw_avg_metric(cpu)
        net_in == ec2_cw_sum_metric(nin)
        net_out == ec2_cw_sum_metric(nout)
    IN IF missing_guard(metrics_missing(cpu_avg, net_in, net_out)) = "raise" THEN "raised"
       ELSE IF ec2_idle(cpu_avg, net_in, net_out) THEN "flagged"
       ELSE "not_flagged"

Ec2Inputs ==
    {[kind |-> "ec2", cpu |-> c, nin |-> i, nout |-> o, treat |-> t] :
        c \in ObsResps({2, 4}), i \in ObsResps({0, 15 * MiB}),
        o \in ObsResps({0, 15 * MiB}), t \in BOOLEAN}

Ec2Classify ==
    /\ dFn = "ec2.classify" /\ dOut = NoOutput
    /\ dOut' = [kind |-> ec2_classify(dIn.cpu, dIn.nin, dIn.nout, dIn.treat)]
    /\ UNCHANGED <<dFn, dIn>>
    /\ UNCHANGED <<metricVars, pageVars, runVars, poolVars, baseVars>>

\* argparse defaults of the RDS auditor (--max-cpu-avg, --max-connections,
\* --max-iops-sum)
rds_max_cpu_avg == 2
max_connections == 3
max_iops_sum == 100

\* `cw_sum_metric(...) or 0.0`
OrZero(r) == IF r = NoneRet \/ r.val = 0 THEN 0 ELSE r.val

rds_idle_any(cpu, conn, iops_sum) ==
    cpu.val <= rds_max_cpu_avg \/ conn.val <= max_connections \/ iops_sum <= max_iops_sum
\* line 196
rds_idle(cpu, conn, iops_sum) ==
    cpu.val <= rds_max_cpu_avg /\ conn.val <= max_connections /\ iops_sum <= max_iops_sum

\* RDS auditor, lines 186-198 (instances) and 232-243 (clusters):
\* "skipped" (a metric is missing) | "flagged" | "not_flagged"
rds_classify(cpuR, connR, readR, writeR) ==
    LET cpu == rds_cw_avg_metric(cpuR)
        conn == rds_cw_avg_metric(connR)
        iops_sum == OrZero(rds_cw_sum_metric(readR)) + OrZero(rds_cw_sum_metric(writeR))
    IN IF cpu = NoneRet \/ conn = NoneRet THEN "skipped"
       ELSE IF rds_idle(cpu, conn, iops_sum) THEN "flagged"
       ELSE "not_flagged"

RdsInputs ==
    {[kind |-> "rds", cpu |-> c, conn |-> n, read |-> r, write |-> w] :
        c \in ObsResps({2, 3}), n \in ObsResps({3, 4}),
        r \in ObsResps({0, 30}), w \in ObsResps({0, 30})}

RdsClassify ==
    /\ dFn = "rds.classify" /\ dOut = NoOutput
    /\ dOut' = [kind |-> rds_classify(dIn.cpu, dIn.conn, dIn.read, dIn.write)]
    /\ UNCHANGED <<dFn, dIn>>
    /\ UNCHANGED <<metricVars, pageVars, runVars, poolVars, baseVars>>

\* argparse defaults of the NAT auditor: --min-bytes 0 and --max-active-conn-avg
\* 0.1; connection counts are modelled in tenths of a connection
min_bytes == 0
max_active_conn_avg == 1

\* aws-nat-gateway-idle-auditor.py cw_sum_metric
nat_cw_sum_metric(resp) ==
    IF resp.throw # None THEN FloatRet(0)
    ELSE FloatRet(SumSeq(Defaulted(resp.pts)))

\* lines 212-218: total_bytes over METRICS_BYTES (two of the four byte metrics
\* are drawn; the other two are summed in the same way), then is_idle
nat_is_idle(bytesR, connR) ==
    LET total_bytes == SumSeq([i \in 1..Len(bytesR) |-> nat_cw_sum_metric(bytesR[i]).val])
        avg_conn == nat_cw_avg_metric(connR)
    IN total_bytes <= min_bytes /\ avg_conn.val <= max_active_conn_avg

NatInputs ==
    {[kind |-> "nat", bytes |-> <<b1, b2>>, conn |-> c] :
        b1 \in ObsResps({0, 2}), b2 \in ObsResps({0, 2}), c \in ObsResps({1, 2})}

NatClassify ==
    /\ dFn = "nat.classify" /\ dOut = NoOutput
    /\ dOut' = [kind |-> IF nat_is_idle(dIn.bytes, dIn.conn) THEN "flagged" ELSE "not_flagged"]
    /\ UNCHANGED <<dFn, dIn>>
    /\ UNCHANGED <<metricVars, pageVars, runVars, poolVars, baseVars>>

\* ---- EBS auditor, one region end to end ------------------------------------

\* the volumes of the region: three of (available, 10 days), (available, 2 days),
\* (in-use, 30 days), (available, no CreateTime), in any order
VolumePool ==
    {[id |-> "a", status |-> "available", created |-> TRUE, age |-> 10],
     [id |-> "b", status |-> "available", created |-> TRUE, age |-> 2],
     [id |-> "c", status |-> "in-use", created |-> TRUE, age |-> 30],
     [id |-> "d", status |-> "available", created |-> FALSE, age |-> 0]}

EbsInputs ==
    {[kind |-> "ebs", vols |-> v, older_than_days |-> o, apply |-> ap, max_apply |-> m] :
        v \in {s \in [1..3 -> VolumePool] : \A i, j \in 1..3 : s[i] = s[j] => i = j},
        o \in {[given |-> FALSE, days |-> 0], [given |-> TRUE, days |-> 7],
               [given |-> TRUE, days |-> 11]},
        ap \in BOOLEAN, m \in {1, 100}}

describe_volumes_unfiltered(vols) == vols
\* list_available_volumes: describe_volumes with Filters status = available
describe_volumes(vols) == SelectSeq(vols, LAMBDA v : v.status = "available")

\* line 181: the age filter's `continue`
ebs_age_excluded(older, v) == older.given /\ v.created /\ v.age < older.days

\* main, lines 173-212: the loop over the listed volumes
RECURSIVE ebs_loop(_, _, _, _)
ebs_loop(vols, a, res, op) ==
    IF vols = <<>> THEN res
    ELSE LET v == Head(vols)
             act == ebs_should_delete(a, op)
             rec == [volume_id |-> v.id, delete_attempted |-> act]
         IN IF ebs_age_excluded(a.older_than_days, v)
            THEN ebs_loop(Tail(vols), a, res, op)
            ELSE ebs_loop(Tail(vols), a, Append(res, rec), ebs_operated(op, act, None))

EbsRegion ==
    /\ dFn = "ebs.region" /\ dOut = NoOutput
    /\ dOut' = [kind |-> "ebs", records |-> ebs_loop(describe_volumes(dIn.vols), dIn, <<>>, 0)]
    /\ UNCHANGED <<dFn, dIn>>
    /\ UNCHANGED <<metricVars, pageVars, runVars, poolVars, baseVars>>

\* ---- orphaned-snapshot auditor, one snapshot --------------------------------

\* volExists: the snapshot's source volume exists in the region; vols: whether
\* list_volumes returned ("listed") or raised and left volumes = set() ("empty",
\* lines 175-179); old: StartTime is before the --days cutoff
SnapshotInputs ==
    {[kind |-> "snapshot", volExists |-> e, vols |-> l, old |-> o, passes |-> p,
      delete |-> d, max_delete |-> m] :
        e \in BOOLEAN, l \in {"listed", "empty"}, o \in BOOLEAN, p \in BOOLEAN,
        d \in BOOLEAN, m \in {0, 1}}

\* main, lines 185-207, for one snapshot of a listed region
SnapshotAudit ==
    /\ dFn = "snapshot.audit" /\ dOut = NoOutput
    /\ LET status == classify_snapshot(dIn.volExists, dIn.vols, dIn.old)
           reported == dIn.passes /\ status # "OK"
       IN dOut' = [kind |-> "snapshot", status |-> status, reported |-> reported,
                   delete_attempted |-> reported /\ snapshot_should_delete(dIn, 0)]
    /\ UNCHANGED <<dFn, dIn>>
    /\ UNCHANGED <<metricVars, pageVars, runVars, poolVars, baseVars>>

\* ---- SQS unused-queue auditor, one queue -------------------------------------

\* depth: the messages the queue holds; attrsOk: get_queue_attributes answered;
\* sources: whether other queues use this one as their dead-letter queue;
\* dlqOk: list_dead_letter_source_queues answered
SqsInputs ==
    {[kind |-> "sqs", depth |-> n, attrsOk |-> ao, sources |-> s, dlqOk |-> lo,
      sent |-> sn, recv |-> rv, force_delete_dlq |-> f, delete |-> d, max_delete |-> m] :
        n \in 0..1, ao \in BOOLEAN, s \in {"none", "some"}, lo \in BOOLEAN,
        sn \in ActivityResps, rv \in ActivityResps, f \in BOOLEAN, d \in BOOLEAN,
        m \in {0, 1}}

\* main, lines 238-303, for one queue that passed the filters
SqsAudit ==
    /\ dFn = "sqs.audit" /\ dOut = NoOutput
    /\ LET is_dlq == list_dead_letter_sources(IF dIn.dlqOk THEN dIn.sources ELSE "throw") > 0
           flagged == sqs_flagged(sqs_cw_sum_metric(dIn.sent), sqs_cw_sum_metric(dIn.recv))
           can == can_delete(dIn, flagged, queue_depth(dIn.attrsOk, dIn.depth), is_dlq)
       IN dOut' = [kind |-> "sqs", is_dlq |-> is_dlq, flagged |-> flagged,
                   delete_attempted |-> sqs_should_delete(dIn, can, 0)]
    /\ UNCHANGED <<dFn, dIn>>
    /\ UNCHANGED <<metricVars, pageVars, runVars, poolVars, baseVars>>

\* ---- S3 unused-bucket auditor, one bucket ------------------------------------

\* argparse default of --max-object-count
max_object_count == 50

\* list_objects_sample (127-148): the objects counted before the listing raised
\* (counted = NoListError: it never raised) or --list-max was reached; the
\* exception is swallowed and the count so far returned
MaxObjects == 2
NoListError == MaxObjects + 1
Min2(a, b) == IF a <= b THEN a ELSE b
list_objects_sample(objects, counted, max_items) ==
    Min2(Min2(objects, counted), max_items)

\* bucket_versioning (111-116): the Status, None when unset or when the call raises
bucket_versioning(status, ok) == IF ok THEN status ELSE None

\* lines 205-208
s3_empty(obj_count) == obj_count = 0
s3_stale(obj_count, old) == ~s3_empty(obj_count) /\ obj_count <= max_object_count /\ old

\* line 235
s3_should_delete(a, empty, deleted, ver_status) ==
    empty /\ a.apply_delete /\ deleted < a.max_delete /\ ver_status # "Enabled"

\* objects: what the bucket holds; status/verOk: its versioning and whether
\* get_bucket_versioning answered; old: the latest object is older than
\* --min-days-since-mod
S3Inputs ==
    {[kind |-> "s3", objects |-> n, counted |-> c, list_max |-> lm, status |-> st,
      verOk |-> vo, old |-> o, apply_delete |-> d, max_delete |-> m] :
        n \in 0..MaxObjects, c \in 0..NoListError, lm \in 1..MaxObjects,
        st \in {"Enabled", "Suspended", None}, vo \in BOOLEAN, o \in BOOLEAN,
        d \in BOOLEAN, m \in {0, 1}}

\* main, lines 196-240, for one bucket that passed the name and tag filters
S3Audit ==
    /\ dFn = "s3.audit" /\ dOut = NoOutput
    /\ LET obj_count == list_objects_sample(dIn.objects, dIn.counted, dIn.list_max)
           ver_status == bucket_versioning(dIn.status, dIn.verOk)
           empty == s3_empty(obj_count)
           flagged == empty \/ s3_stale(obj_count, dIn.old)
       IN dOut' = [kind |-> "s3", object_count_sample |-> obj_count,
                   versioning |-> ver_status, flagged |-> flagged,
                   delete_attempted |-> flagged /\ s3_should_delete(dIn, empty, 0, ver_status)]
    /\ UNCHANGED <<dFn, dIn>>
    /\ UNCHANGED <<metricVars, pageVars, runVars, poolVars, baseVars>>

\* ---- S3 unused-bucket auditor, merge_and_tag ---------------------------------

\* tag sets are functions from tag keys to tag values; "Cost:Review" is the
\* default --tag-key, "s3-unused-candidate" the default --tag-value
TagKeys == {"Cost:Review", "owner", "env"}
TagValues == {"s3-unused-candidate", "x"}
TagSets == UNION {[ks -> TagValues] : ks \in SUBSET TagKeys}
NoTags == [k \in {} |-> "x"]

\* bucket_tags (119-124): the bucket's tags, {} when get_bucket_tagging raises
bucket_tags(tags, ok) == IF ok THEN tags ELSE NoTags

\* lines 154-155: existing[key] = value; tagset from existing.items()
tagset_merge(existing, key, value) ==
    [k \in DOMAIN existing \cup {key} |-> IF k = key THEN value ELSE existing[k]]

\* merge_and_tag (151-159): put_bucket_tagging replaces the bucket's tag set;
\* returns the error and the bucket's tags afterwards
merge_and_tag(tags, lookupOk, put_err, key, value) ==
    LET existing == bucket_tags(tags, lookupOk)
        tagset == tagset_merge(existing, key, value)
    IN [err |-> put_err, tags |-> IF put_err = None THEN tagset ELSE tags]

S3TagInputs ==
    {[kind |-> "s3tag", tags |-> t, lookupOk |-> ok, put_err |-> e] :
        t \in TagSets, ok \in BOOLEAN, e \in Errs}

S3MergeAndTag ==
    /\ dFn = "s3.merge_and_tag" /\ dOut = NoOutput
    /\ dOut' = [kind |-> "s3tag"] @@
               merge_and_tag(dIn.tags, dIn.lookupOk, dIn.put_err, "Cost:Review",
                             "s3-unused-candidate")
    /\ UNCHANGED <<dFn, dIn>>
    /\ UNCHANGED <<metricVars, pageVars, runVars, poolVars, baseVars>>

\* ---- --fail-on-findings exit codes (SQS, SNS, AWS Config auditors) -----------

\* the --json branch: return 0 if (results or not args.fail_on_findings) else 2
\* (sqs 321-323, sns 279-281, config 173-175; the three are the same text)
fail_on_findings_json(n_results, fail_on_findings) ==
    IF n_results # 0 \/ ~fail_on_findings THEN 0 ELSE 2

\* the table branch (sqs 325-327 and 350-352, sns 283-285 and 307-309,
\* config 177-179 and 201-203)
fail_on_findings_table(n_results, fail_on_findings) ==
    IF n_results = 0 THEN 0
    ELSE IF fail_on_findings /\ n_results # 0 THEN 2
    ELSE 0

\* n_results: the number of records in `results`
GateInputs ==
    {[kind |-> "gate", script |-> s, results |-> n, json |-> j, fail_on_findings |-> f] :
        s \in {"sqs", "sns", "config"}, n \in 0..MaxItems, j \in BOOLEAN, f \in BOOLEAN}

GateExit ==
    /\ dFn = "gate.exit" /\ dOut = NoOutput
    /\ dOut' = [kind |-> "exit",
                rc |-> IF dIn.json
                       THEN fail_on_findings_json(dIn.results, dIn.fail_on_findings)
                       ELSE fail_on_findings_table(dIn.results, dIn.fail_on_findings)]
    /\ UNCHANGED <<dFn, dIn>>
    /\ UNCHANGED <<metricVars, pageVars, runVars, poolVars, baseVars>>

\* ---- TLS endpoint sweeper -----------------------------------------------------

\* argparse default of --warn-days
warn_days == 30

\* an endpoint: whether the connection is established and a certificate is
\* presented, and the whole days from `now` to the certificate's notAfter
MaxEndpoints == 2
Endpoints ==
    {[reachable |-> r, days_left |-> d] : r \in BOOLEAN, d \in {0 - 1, 0, 10, 30, 31}}
EndpointLists == UNION {[1..n -> Endpoints] : n \in 0..MaxEndpoints}

\* fetch_cert (87-97): ssl.create_default_context() verifies the peer's
\* certificate during the handshake, which runs after `now` was taken; a
\* certificate whose notAfter has passed fails the handshake ("raise")
fetch_cert(ep) == IF ~ep.reachable \/ ep.days_left <= 0 THEN "raise" ELSE "cert"

\* scan_endpoint (135-170)
scan_endpoint(ep) ==
    IF fetch_cert(ep) = "raise" THEN "ERROR"
    ELSE IF ep.days_left <= warn_days THEN "EXPIRING"
    ELSE "OK"

\* main (173-223): 1 without endpoints; the --json and the table branch end alike
tls_main(eps, fail_expiring) ==
    LET expiring == \E i \in 1..Len(eps) : scan_endpoint(eps[i]) = "EXPIRING"
    IN IF eps = <<>> THEN 1
       ELSE IF fail_expiring /\ expiring THEN 2
       ELSE 0

TlsInputs ==
    {[kind |-> "tls", eps |-> e, fail_expiring |-> f, json |-> j] :
        e \in EndpointLists, f \in BOOLEAN, j \in BOOLEAN}

TlsSweep ==
    /\ dFn = "tls.sweep" /\ dOut = NoOutput
    /\ dOut' = [kind |-> "exit", rc |-> tls_main(dIn.eps, dIn.fail_expiring)]
    /\ UNCHANGED <<dFn, dIn>>
    /\ UNCHANGED <<metricVars, pageVars, runVars, poolVars, baseVars>>

\* ---- Kubernetes stuck-finalizer detector, one object ---------------------------

\* argparse default of --threshold-seconds
threshold_seconds == 600

\* metadata.deletionTimestamp as consider() receives it: the kubernetes client
\* hands over a datetime object ("datetime"); "str" is an RFC3339 string,
\* "badstr" a string fromisoformat rejects.  elapsed: seconds from the
\* deletionTimestamp to now (negative while the timestamp is in the future)
DeletionTimestamps ==
    {[form |-> f, elapsed |-> e] :
        f \in {"datetime", "str", "badstr"}, e \in {0 - 30, 10, 599, 600, 700}}

\* age_seconds (102-111): parse_rfc3339 calls ts.endswith, which a datetime
\* does not have; every exception is caught and -1.0 returned
age_seconds(ts) == IF ts.form = "str" THEN ts.elapsed ELSE 0 - 1

\* lines 140-143
is_stuck(age, threshold) == age >= threshold \/ age < 0

\* scan.consider (118-143) for an object that passed the namespace filters:
\* "stuck" | "terminating" | "ignored"
consider(deleting, finalizers, ts) ==
    IF deleting /\ finalizers > 0
    THEN (IF is_stuck(age_seconds(ts), threshold_seconds) THEN "stuck" ELSE "terminating")
    ELSE "ignored"

K8sInputs ==
    {[kind |-> "k8s", deleting |-> d, finalizers |-> n, ts |-> t] :
        d \in BOOLEAN, n \in 0..1, t \in DeletionTimestamps}

K8sConsider ==
    /\ dFn = "k8s.consider" /\ dOut = NoOutput
    /\ dOut' = [kind |-> consider(dIn.deleting, dIn.finalizers, dIn.ts)]
    /\ UNCHANGED <<dFn, dIn>>
    /\ UNCHANGED <<metricVars, pageVars, runVars, poolVars, baseVars>>

DecideInputs(f) ==
    CASE f = "ec2.classify" -> Ec2Inputs
      [] f = "rds.classify" -> RdsInputs
      [] f = "nat.classify" -> NatInputs
      [] f = "ebs.region" -> EbsInputs
      [] f = "snapshot.audit" -> SnapshotInputs
      [] f = "sqs.audit" -> SqsInputs
      [] f = "s3.audit" -> S3Inputs
      [] f = "s3.merge_and_tag" -> S3TagInputs
      [] f = "gate.exit" -> GateInputs
      [] f = "tls.sweep" -> TlsInputs
      [] f = "k8s.consider" -> K8sInputs

DecideFns ==
    {"ec2.classify", "rds.classify", "nat.classify",
     "ebs.region",
     "snapshot.audit",
     "sqs.audit",
     "s3.audit",
     "s3.merge_and_tag",
     "gate.exit",
     "tls.sweep",
     "k8s.consider"}

DecideInit ==
    /\ dFn \in DecideFns
    /\ dIn \in DecideInputs(dFn)
    /\ dOut = NoOutput

DecideNext ==
    \/ Ec2Classify
    \/ RdsClassify
    \/ NatClassify
    \/ EbsRegion
    \/ SnapshotAudit
    \/ SqsAudit
    \/ S3Audit
    \/ S3MergeAndTag
    \/ GateExit
    \/ TlsSweep
    \/ K8sConsider

(***************************************************************************)
(* Part 5: the TLS endpoint sweeper's worker pool                          *)
(***************************************************************************)

MaxEndpointArgs == 3
MaxWorkers == 2
\* endpoints are told apart as strings, as load_endpoints does
EndpointNames == {"a:443", "b", "c:8443"}
ProbeStatuses == {"OK", "EXPIRING", "ERROR"}

PoolIdle ==
    /\ endpoints = <<>> /\ workers = 0 /\ pcPool = "idle" /\ uniq = <<>>
    /\ work_queue = <<>> /\ running = {} /\ finished = {} /\ pool_results = <<>>
    /\ probes = <<>> /\ pool_rc = 0 - 1

PoolInit ==
    /\ endpoints \in UNION {[1..n -> EndpointNames] : n \in 0..MaxEndpointArgs}
    /\ workers \in 0..MaxWorkers
    /\ pcPool = "load" /\ uniq = <<>>
    /\ work_queue = <<>> /\ running = {} /\ finished = {} /\ pool_results = <<>>
    /\ probes = [e \in EndpointNames |-> 0] /\ pool_rc = 0 - 1

load_endpoints_keep_all(eps, acc) == eps
\* load_endpoints, lines 67-74: de-dup, preserving order
RECURSIVE load_endpoints(_, _)
load_endpoints(eps, acc) ==
    IF eps = <<>> THEN acc
    ELSE IF \E k \in 1..Len(acc) : acc[k] = Head(eps)
         THEN load_endpoints(Tail(eps), acc)
         ELSE load_endpoints(Tail(eps), Append(acc, Head(eps)))

\* main, lines 174-184: load the endpoints, return 1 without any; the executor's
\* constructor raises ValueError for --workers < 1 (exit 1 through the
\* top-level handler); otherwise every endpoint is submitted, in order
LoadAndSubmit ==
    /\ pcPool = "load"
    /\ LET u == load_endpoints(endpoints, <<>>)
       IN /\ uniq' = u
          /\ IF u = <<>> \/ workers < 1
             THEN pcPool' = "done" /\ pool_rc' = 1 /\ work_queue' = <<>>
             ELSE pcPool' = "scan" /\ pool_rc' = pool_rc
                  /\ work_queue' = [i \in 1..Len(u) |-> i]
    /\ UNCHANGED <<endpoints, workers, running, finished, pool_results, probes>>
    /\ UNCHANGED <<metricVars, pageVars, runVars, decideVars, baseVars>>

\* a free worker thread takes the oldest submitted probe and calls scan_endpoint
StartProbe ==
    /\ pcPool = "scan" /\ work_queue # <<>> /\ Cardinality(running) < workers
    /\ running' = running \cup {Head(work_queue)}
    /\ work_queue' = Tail(work_queue)
    /\ probes' = [probes EXCEPT ![uniq[Head(work_queue)]] = @ + 1]
    /\ UNCHANGED <<endpoints, workers, pcPool, uniq, finished, pool_results, pool_rc>>
    /\ UNCHANGED <<metricVars, pageVars, runVars, decideVars, baseVars>>

\* scan_endpoint (135-170) returns: a record with the certificate's status, or
\* the ERROR record of the except branch; it never raises
FinishProbe ==
    /\ pcPool = "scan"
    /\ \E i \in running, st \in ProbeStatuses :
        /\ running' = running \ {i}
        /\ finished' = finished \cup {[fut |-> i, endpoint |-> uniq[i], status |-> st]}
    /\ UNCHANGED <<endpoints, workers, pcPool, uniq, work_queue, pool_results, probes,
                   pool_rc>>
    /\ UNCHANGED <<metricVars, pageVars, runVars, decideVars, baseVars>>

\* lines 183-184: as_completed yields some completed future; results.append
Collect ==
    /\ pcPool = "scan"
    /\ \E f \in finished :
        /\ finished' = finished \ {f}
        /\ pool_results' = Append(pool_results, [endpoint |-> f.endpoint, status |-> f.status])
    /\ UNCHANGED <<endpoints, workers, pcPool, uniq, work_queue, running, probes, pool_rc>>
    /\ UNCHANGED <<metricVars, pageVars, runVars, decideVars, baseVars>>

\* as_completed is exhausted once every submitted future was yielded; the
\* executor shuts down and main returns (--fail-expiring is not given)
PoolExit ==
    /\ pcPool = "scan" /\ Len(pool_results) = Len(uniq)
    /\ pcPool' = "done" /\ pool_rc' = 0
    /\ UNCHANGED <<endpoints, workers, uniq, work_queue, running, finished, pool_results,
                   probes>>
    /\ UNCHANGED <<metricVars, pageVars, runVars, decideVars, baseVars>>

PoolNext ==
    \/ LoadAndSubmit
    \/ StartProbe
    \/ FinishProbe
    \/ Collect
    \/ PoolExit

(***************************************************************************)
(* Part 6: the persisted-baseline detectors                                *)
(***************************************************************************)

MaxRuns == 3
Items == {"x", "y"}
Values == {"a", "b"}
NoDict == [i \in {} |-> "a"]
Dicts == UNION {[s -> Values] : s \in SUBSET Items}
ItemOrders == {<<"x", "y">>, <<"y", "x">>}

BaseIdle ==
    /\ detector = None /\ baseline = NoDict /\ world = NoDict /\ run_reports = {}
    /\ runs = 0 /\ last_recorded = NoDict /\ reported_changes = {}

\* no baseline file exists before the first run
BaseInit ==
    /\ detector \in {"notifier", "fim", "systemd"}
    /\ baseline = NoDict
    /\ world = [i \in Items |-> "absent"]
    /\ run_reports = {} /\ runs = 0
    /\ last_recorded = [i \in Items |-> "none"]
    /\ reported_changes = {}

\* notifier line 28, fim line 33, systemd line 32: the item is in the loaded
\* baseline with another value
baseline_changed(old, item, value) == item \in DOMAIN old /\ old[item] # value

\* the loop of main over the items in the order met: an absent item is not
\* looked at (notifier: not in the reservations; fim line 29: os.path.exists;
\* systemd: not in os.listdir); hash_file raises on an unreadable file and the
\* exception leaves main before the save
RECURSIVE scan_items(_, _, _, _, _)
scan_items(order, old, w, new, reports) ==
    IF order = <<>> THEN [saved |-> TRUE, new |-> new, reports |-> reports]
    ELSE LET item == Head(order)
         IN IF w[item] = "absent" THEN scan_items(Tail(order), old, w, new, reports)
            ELSE IF w[item] = "unreadable"
            THEN [saved |-> FALSE, new |-> new, reports |-> reports]
            ELSE scan_items(Tail(order), old, w,
                            [i \in DOMAIN new \cup {item} |->
                                IF i = item THEN w[item] ELSE new[i]],
                            IF baseline_changed(old, item, w[item])
                            THEN reports \cup {item} ELSE reports)

\* one run of main: load the baseline, scan, print, overwrite the baseline
RunOf(w, res) ==
    /\ runs < MaxRuns
    /\ runs' = runs + 1
    /\ world' = [i \in Items |->
                    IF i \in DOMAIN res.new \/ w[i] = "absent" THEN w[i] ELSE "unreadable"]
    /\ run_reports' = res.reports
    /\ baseline' = IF res.saved THEN res.new ELSE baseline
    /\ last_recorded' = [i \in Items |->
                            IF res.saved /\ i \in DOMAIN res.new THEN res.new[i]
                            ELSE last_recorded[i]]
    /\ reported_changes' =
          IF res.saved
          THEN {c \in reported_changes : c[1] \notin DOMAIN res.new}
          ELSE reported_changes \cup {<<i, last_recorded[i], w[i]>> : i \in res.reports}
    /\ UNCHANGED detector
    /\ UNCHANGED <<metricVars, pageVars, runVars, decideVars, poolVars>>

\* aws-instance-type-change-notifier.py main (18-33); describe_instances may
\* raise, before anything is printed or saved
NotifierRun ==
    /\ detector = "notifier"
    /\ \E w \in [Items -> {"absent"} \cup Values], order \in ItemOrders, raises \in BOOLEAN :
          RunOf(w, IF raises THEN [saved |-> FALSE, new |-> NoDict, reports |-> {}]
                   ELSE scan_items(order, baseline, w, NoDict, {}))

\* file-integrity-scanner.py main (25-35); CRITICAL_FILES is scanned in order
FimRun ==
    /\ detector = "fim"
    /\ \E w \in [Items -> {"absent", "unreadable"} \cup Values] :
          RunOf(w, scan_items(<<"x", "y">>, baseline, w, NoDict, {}))

\* systemd-service-file-change-detector.py main (25-34); os.listdir order
SystemdRun ==
    /\ detector = "systemd"
    /\ \E w \in [Items -> {"absent", "unreadable"} \cup Values], order \in ItemOrders :
          RunOf(w, scan_items(order, baseline, w, NoDict, {}))

BaseNext ==
    \/ NotifierRun
    \/ FimRun
    \/ SystemdRun

(***************************************************************************)
(* Specifications                                                          *)
(***************************************************************************)

Init == RunInit /\ MetricIdle /\ PageIdle /\ DecideIdle /\ PoolIdle /\ BaseIdle
Next == RunNext
Spec == Init /\ [][Next]_vars

InitMetric == MetricInit /\ PageIdle /\ RunIdle /\ DecideIdle /\ PoolIdle /\ BaseIdle
NextMetric == Fetch
SpecMetric == InitMetric /\ [][NextMetric]_vars

PageNext ==
    \/ TokenLoopStep
    \/ TruncatedLoopStep
    \/ KeyTagsStep
    \/ RRSetsStep
    \/ PageCapped
InitPage == PageInit /\ MetricIdle /\ RunIdle /\ DecideIdle /\ PoolIdle /\ BaseIdle
NextPage == PageNext
SpecPage == InitPage /\ [][NextPage]_vars

InitDecide == DecideInit /\ MetricIdle /\ PageIdle /\ RunIdle /\ PoolIdle /\ BaseIdle
NextDecide == DecideNext
SpecDecide == InitDecide /\ [][NextDecide]_vars

InitPool == PoolInit /\ MetricIdle /\ PageIdle /\ RunIdle /\ DecideIdle /\ BaseIdle
NextPool == PoolNext
SpecPool == InitPool /\ [][NextPool]_vars

InitBaseline == BaseInit /\ MetricIdle /\ PageIdle /\ RunIdle /\ DecideIdle /\ PoolIdle
NextBaseline == BaseNext
SpecBaseline == InitBaseline /\ [][NextBaseline]_vars

(***************************************************************************)
(* Properties                                                              *)
(***************************************************************************)

Ops == {"tag", "delete", "stop", "release", "deactivate", "create_snapshot", "rollback"}

\* calls of one kind that reached the backend / that succeeded
Attempts(op) == Cardinality({c \in backend : c.op = op})
Succeeded(op) == Cardinality({c \in backend : c.op = op /\ c.ok})

\* reported records marked as attempted, per kind of action
Recs == {results[k] : k \in 1..Len(results)}
NTagAttempted == Cardinality({k \in 1..Len(results) : results[k].tag_attempted})
NDeleteAttempted == Cardinality({k \in 1..Len(results) : results[k].delete_attempted})
NStopAttempted == Cardinality({k \in 1..Len(results) : results[k].stop_attempted})
NReleaseAttempted == Cardinality({k \in 1..Len(results) : results[k].release_attempted})

\* the command line opts in to the kind of action
OptedIn(op) ==
    CASE op = "tag" -> args.apply_tag
      [] op = "stop" -> args.apply_stop /\ args.confirm_stop
      [] op = "delete" -> args.delete \/ args.schedule_delete \/ (script = "ebs" /\ args.apply)
      [] op = "create_snapshot" -> script = "ebs" /\ args.apply
      [] op = "release" -> args.release
      [] op = "deactivate" -> args.deactivate
      [] op = "rollback" -> script = "rollback" /\ args.apply

TagCap == IF script \in {"ec2", "elasticache"} THEN args.max_tag ELSE args.max_apply
DeleteCap == IF script \in {"ebs", "secrets"} THEN args.max_apply ELSE args.max_delete

\* C2: in a run with cap M, at most M reported records have *_attempted set,
\* whatever the outcome of the attempts (the Secrets auditor shares one cap
\* between tagging and scheduling deletion).
C2_CapEnforcement ==
    /\ script \in {"ec2", "sqs", "sns", "elasticache"} => NTagAttempted <= TagCap
    /\ script \in {"ebs", "sqs", "sns", "snapshot"} => NDeleteAttempted <= DeleteCap
    /\ script = "secrets" => NTagAttempted + NDeleteAttempted <= args.max_apply
    /\ script = "ec2" => NStopAttempted <= args.max_stop
    /\ script = "eip" => NReleaseAttempted <= args.max_release

\* the EC2 half of C2 alone: records marked stop_attempted against --max-stop
C2_StopAttemptedWithinCap == script = "ec2" => NStopAttempted <= args.max_stop

\* C3: the mutating operations a run performs successfully never exceed the
\* cap the user supplied for them.  The IAM auditor takes no cap option; its
\* deactivations are held against MaxCap, the largest cap a user of the model
\* can have in mind.
C3_BlastRadius ==
    /\ script \in {"ec2", "sqs", "sns", "elasticache"} => Succeeded("tag") <= TagCap
    /\ script \in {"ebs", "sqs", "sns", "snapshot"} => Succeeded("delete") <= DeleteCap
    /\ script = "secrets" => Succeeded("tag") + Succeeded("delete") <= args.max_apply
    /\ script = "ec2" => Succeeded("stop") <= args.max_stop
    /\ script = "eip" => Succeeded("release") <= args.max_release
    /\ script = "iam" => Succeeded("deactivate") <= MaxCap

\* C4 as stated: in every capped script the counter compared against the cap
\* counts the successful actions only, so a failed action consumes no budget.
C4_SuccessOnly ==
    /\ script \in {"ebs", "snapshot"} => operated = Succeeded("delete")
    /\ script = "eip" => operated = Succeeded("release")
    /\ script = "ec2" => tagged = Succeeded("tag") /\ operated = Succeeded("stop")
    /\ script = "secrets" => tagged = Succeeded("tag") + Succeeded("delete")
    /\ script \in {"sqs", "sns"} => tagged = Succeeded("tag") /\ operated = Succeeded("delete")
    /\ script = "elasticache" => tagged = Succeeded("tag")

\* C4 amended: the EC2 (tag and stop), Secrets, SQS, SNS and ElastiCache auditors
\* count successful actions only; the EBS-volume, EBS-snapshot and Elastic-IP
\* auditors count every attempt, so there a failed action consumes budget.
C4_CounterAccounting ==
    /\ script \in {"ebs", "snapshot"} => operated = Attempts("delete")
    /\ script = "eip" => operated = Attempts("release")
    /\ script = "ec2" => tagged = Succeeded("tag") /\ operated = Succeeded("stop")
    /\ script = "secrets" => tagged = Succeeded("tag") + Succeeded("delete")
    /\ script \in {"sqs", "sns"} => tagged = Succeeded("tag") /\ operated = Succeeded("delete")
    /\ script = "elasticache" => tagged = Succeeded("tag")

\* C4 witness: an EBS run whose only delete failed has used up --max-apply 1 and
\* left a second reported volume untouched.
C4_Witness ==
    /\ script = "ebs" /\ pc = "done" /\ args.apply /\ args.max_apply = 1
    /\ operated = 1 /\ Succeeded("delete") = 0 /\ Attempts("delete") = 1
    /\ Len(results) >= 2

\* C5: over a whole EC2 run, the instances stopped by successful stop batches,
\* and the script's own `stopped` counter, never exceed --max-stop.
C5_StopBound ==
    script = "ec2" => Succeeded("stop") <= args.max_stop /\ operated <= args.max_stop

\* C5 witness: more idle instances were queued than the cap allows, and the run
\* ended having stopped exactly --max-stop of them.
C5_Witness ==
    /\ script = "ec2" /\ pc = "done" /\ args.max_stop >= 1
    /\ Succeeded("stop") = args.max_stop
    /\ NStopAttempted > args.max_stop

\* what a complete listing of the backend's data is, in the helper's return type
CompleteListing == IF helper = "kms.key_tags" THEN DictOf(data) ELSE data

\* C6: a listing helper that has returned, returned exactly the items of all
\* pages of the backend's result, in page order, each item once.
C6_PaginationCompleteness == pcP = "done" => retP = CompleteListing

\* C6 for the token and Marker loops alone (list_available_volumes, list_queues,
\* list_users, list_access_keys), which do return the complete listing
C6_TokenLoopsComplete ==
    (pcP = "done" /\ helper \in TokenHelpers \cup TruncatedHelpers) => retP = data

\* C7: a pagination loop issues one call per page of the finite result and then
\* returns: it never issues more calls than there are pages, and it has issued
\* exactly that many when it returns.
C7_PaginationTermination ==
    /\ callsP <= NumPages(data)
    /\ pcP = "done" => callsP = NumPages(data)

\* C7 for the loops that do terminate (every helper but list_rrsets)
C7_OtherLoopsTerminate ==
    helper # "r53.list_rrsets" =>
        /\ callsP <= NumPages(data)
        /\ pcP = "done" => callsP = NumPages(data)

Fates == {regionFate[r] : r \in DOMAIN regionFate}

\* C8: when a region's listing call raises, a multi-region script goes on with
\* the remaining regions and the failure alone does not make the exit code
\* nonzero: at the end of a run that no per-resource exception aborted, every
\* region was either scanned or skipped with a warning, and the exit code is not 1.
C8_RegionIsolation ==
    (pc = "done" /\ script \in MultiRegion /\ "resabort" \notin Fates) =>
        /\ Fates \subseteq {"scanned", "listfail", "cut"}
        /\ rc # 1

\* C8 for the scripts that wrap the listing in try/except (all but ElastiCache)
C8_GuardedListings ==
    (pc = "done" /\ script \in MultiRegion \ {"elasticache"} /\ "resabort" \notin Fates) =>
        /\ Fates \subseteq {"scanned", "listfail", "cut"}
        /\ rc # 1

HasError(r) ==
    \/ r.tag_error # None \/ r.delete_error # None \/ r.stop_error # None
    \/ r.release_error # None \/ r.deactivate_error # None \/ r.snapshot_error # None

\* the record of resource id carries the error of a failed call of kind op
RecordedError(op, id) ==
    \E r \in Recs :
        /\ r.id = id
        /\ CASE op = "tag" -> r.tag_error # None
             [] op = "delete" -> r.delete_error # None
             [] op = "stop" -> r.stop_error # None
             [] op = "release" -> r.release_error # None
             [] op = "deactivate" -> r.deactivate_error # None
             [] op = "create_snapshot" -> r.snapshot_error # None
             [] OTHER -> FALSE

\* C9: an error raised while one resource is processed is recorded in that
\* resource's record, and the loop goes on: at the end of the run every
\* resource at which a call raised has a record with an error field set, every
\* listed resource was processed, and the run did not abort.
C9_ErrorContainment ==
    (pc = "done" /\ script # "rollback") =>
        /\ \A c \in backend : ~c.ok => RecordedError(c.op, c.id)
        /\ \A id \in raisedAt : \E r \in Recs : r.id = id /\ HasError(r)
        /\ listed \subseteq visited \cup raisedAt
        /\ raisedAt # {} => rc # 1

\* C9 for the mutating actions alone: a failed tag / delete / stop / release /
\* deactivate / snapshot call is recorded in the resource's record
C9_ActionErrorsRecorded ==
    script # "rollback" => \A c \in backend : ~c.ok => RecordedError(c.op, c.id)

\* the backend gave no data: the call threw, or it answered with no datapoints
NoData == mResp.throw # None \/ mResp.pts = <<>>

HasData(resp) == resp.throw = None /\ resp.pts # <<>>
ObsSum(resp) == SumSeq(Defaulted(resp.pts))
ObsAvg(resp) == SumSeq(Defaulted(resp.pts)) \div Len(resp.pts)

\* C11: with every metric observed, a resource is flagged idle exactly when
\* every observation is at or below its threshold (EC2: average CPU, combined
\* NetworkIn+NetworkOut; RDS: average CPU, average connections, summed
\* Read+Write IOPS; NAT: total bytes, average active connections); so one
\* observation above its threshold makes the resource not flagged.
C11_AllCombinator ==
    dOut # NoOutput =>
        /\ (dFn = "ec2.classify" /\ HasData(dIn.cpu) /\ HasData(dIn.nin) /\ HasData(dIn.nout)) =>
              (dOut.kind = "flagged" <=>
                  /\ ObsAvg(dIn.cpu) <= max_cpu_avg
                  /\ ObsSum(dIn.nin) + ObsSum(dIn.nout) <= max_network_mb * MiB)
        /\ (dFn = "rds.classify" /\ HasData(dIn.cpu) /\ HasData(dIn.conn)
                                 /\ HasData(dIn.read) /\ HasData(dIn.write)) =>
              (dOut.kind = "flagged" <=>
                  /\ ObsAvg(dIn.cpu) <= rds_max_cpu_avg
                  /\ ObsAvg(dIn.conn) <= max_connections
                  /\ ObsSum(dIn.read) + ObsSum(dIn.write) <= max_iops_sum)
        /\ (dFn = "nat.classify" /\ HasData(dIn.conn)
                                 /\ \A i \in 1..Len(dIn.bytes) : HasData(dIn.bytes[i])) =>
              (dOut.kind = "flagged" <=>
                  /\ ObsSum(dIn.bytes[1]) + ObsSum(dIn.bytes[2]) <= min_bytes
                  /\ ObsAvg(dIn.conn) <= max_active_conn_avg)

\* C11 witness: an RDS instance whose CPU and IOPS are idle but whose average
\* connection count is above --max-connections was classified not flagged.
C11_Witness ==
    /\ dFn = "rds.classify" /\ dOut = [kind |-> "not_flagged"]
    /\ dIn.cpu = Answer(<<2>>) /\ dIn.conn = Answer(<<4>>)
    /\ dIn.read = Answer(<<0>>) /\ dIn.write = Answer(<<0>>)

\* C12: with the volumes (available, 10 days), (available, 2 days) and
\* (in-use, 30 days) in one region and --older-than-days 7, the auditor emits
\* exactly one record, for the first volume; the other two are never reported
\* and never deleted, with or without --apply.
C12_EbsScenario ==
    (/\ dFn = "ebs.region" /\ dOut # NoOutput
     /\ {dIn.vols[i].id : i \in 1..3} = {"a", "b", "c"}
     /\ dIn.older_than_days = [given |-> TRUE, days |-> 7]) =>
        /\ Len(dOut.records) = 1
        /\ dOut.records[1].volume_id = "a"
        /\ dOut.records[1].delete_attempted = dIn.apply

\* C12 witness: the scenario ran with --apply and the one record is the
\* 10-day-old available volume, with its delete attempted.
C12_Witness ==
    /\ dFn = "ebs.region" /\ dOut # NoOutput
    /\ {dIn.vols[i].id : i \in 1..3} = {"a", "b", "c"}
    /\ dIn.older_than_days = [given |-> TRUE, days |-> 7] /\ dIn.apply
    /\ dOut.records = <<[volume_id |-> "a", delete_attempted |-> TRUE]>>

ObsAvgOrZero(resp) == IF HasData(resp) THEN ObsAvg(resp) ELSE 0
ObsSumOrZero(resp) == IF HasData(resp) THEN ObsSum(resp) ELSE 0

\* C13: an EC2 instance with no data for a metric is never flagged without
\* --treat-missing-metrics-idle; with the flag the missing values count as 0
\* and the instance is flagged exactly when the thresholds are then met.
C13_MissingMetrics ==
    (/\ dFn = "ec2.classify" /\ dOut # NoOutput
     /\ ~(HasData(dIn.cpu) /\ HasData(dIn.nin) /\ HasData(dIn.nout))) =>
        IF dIn.treat
        THEN dOut.kind = "flagged" <=>
                /\ ObsAvgOrZero(dIn.cpu) <= max_cpu_avg
                /\ ObsSumOrZero(dIn.nin) + ObsSumOrZero(dIn.nout) <= max_network_mb * MiB
        ELSE dOut.kind # "flagged"

\* C14: a snapshot is classified ORPHAN only if its source volume no longer
\* exists in the region, and a snapshot younger than --days whose source volume
\* still exists is never deleted, whatever the listing calls returned.
C14_OrphanOnlyIfVolumeGone ==
    (dFn = "snapshot.audit" /\ dOut # NoOutput) =>
        /\ dOut.status \in {"ORPHAN", "ORPHAN+OLD"} => ~dIn.volExists
        /\ (dIn.volExists /\ ~dIn.old) => ~dOut.delete_attempted

\* C15: the SQS auditor deletes a queue only if the queue is empty and, unless
\* --force-delete-dlq is given, is not the dead-letter queue of another queue,
\* whatever the attribute and dead-letter-source lookups returned.
C15_DeleteOnlyEmptyNonDlq ==
    (dFn = "sqs.audit" /\ dOut # NoOutput /\ dOut.delete_attempted) =>
        /\ dIn.depth = 0
        /\ dIn.force_delete_dlq \/ dIn.sources = "none"

\* C16: with --apply-delete the S3 auditor attempts a delete only for a bucket
\* that holds 0 objects and whose versioning is not 'Enabled', whatever the
\* object-listing and versioning lookups returned.
C16_DeleteOnlyEmptyUnversioned ==
    (dFn = "s3.audit" /\ dOut # NoOutput /\ dOut.delete_attempted) =>
        /\ dIn.objects = 0
        /\ dIn.status # "Enabled"

\* C17: after --apply-tag every tag the bucket had before, other than the
\* review key, is still present with its old value, whatever the tag lookup
\* returned.
C17_TagsPreserved ==
    (dFn = "s3.merge_and_tag" /\ dOut # NoOutput) =>
        \A k \in DOMAIN dIn.tags \ {"Cost:Review"} :
            k \in DOMAIN dOut.tags /\ dOut.tags[k] = dIn.tags[k]

\* C18: with --fail-on-findings the SQS, SNS and AWS Config auditors exit 2
\* when there is at least one finding and 0 when there is none, in --json and
\* in table mode alike.
C18_FailOnFindings ==
    (dFn = "gate.exit" /\ dOut # NoOutput /\ dIn.fail_on_findings) =>
        dOut.rc = IF dIn.results > 0 THEN 2 ELSE 0

\* C19: the IAM access-key auditor exits 0 when no key is flagged or when
\* --deactivate is given and the deactivations succeeded, and 2 when flagged
\* keys exist and it is not deactivating, in --json and in table mode alike.
C19_IamExitCode ==
    (script = "iam" /\ pc = "done" /\ rc # 1) =>
        /\ ~AnyFlagged(results) => rc = 0
        /\ (/\ AnyFlagged(results) /\ args.deactivate
            /\ \A k \in 1..Len(results) : results[k].deactivate_error = None) => rc = 0
        /\ (AnyFlagged(results) /\ ~args.deactivate) => rc = 2

\* C20: after a scan the TLS sweeper exits 2 exactly when --fail-expiring is
\* set and some scanned endpoint presents a certificate with days remaining
\* <= --warn-days, a certificate already past its notAfter included; every
\* other completed scan exits 0.
C20_TlsExitCode ==
    (dFn = "tls.sweep" /\ dOut # NoOutput /\ dIn.eps # <<>>) =>
        LET expiring == \E i \in 1..Len(dIn.eps) :
                            dIn.eps[i].reachable /\ dIn.eps[i].days_left <= warn_days
        IN dOut.rc = IF dIn.fail_expiring /\ expiring THEN 2 ELSE 0

DistinctEndpoints == {endpoints[i] : i \in 1..Len(endpoints)}
RecordsOf(e) == {k \in 1..Len(pool_results) : pool_results[k].endpoint = e}

\* C21: for every --workers >= 1 and every interleaving of the probes, each
\* distinct input endpoint is probed exactly once and the result list holds
\* exactly one record per distinct endpoint; a probe that fails yields an
\* ERROR record and never aborts, blocks or loses the other probes' results.
C21_OneRecordPerEndpoint ==
    (pcPool \in {"scan", "done"} /\ workers >= 1) =>
        /\ \A e \in EndpointNames : probes[e] <= 1 /\ Cardinality(RecordsOf(e)) <= 1
        /\ \A e \in EndpointNames \ DistinctEndpoints : probes[e] = 0
        /\ pcPool = "scan" => ENABLED PoolNext
        /\ (pcPool = "done" /\ endpoints # <<>>) =>
              /\ pool_rc = 0
              /\ Len(pool_results) = Cardinality(DistinctEndpoints)
              /\ \A e \in DistinctEndpoints :
                    probes[e] = 1 /\ Cardinality(RecordsOf(e)) = 1

\* C21 witness: a scan of two distinct endpoints (one given twice) finished
\* with an ERROR record for one endpoint and an OK record for the other.
C21_Witness ==
    /\ pcPool = "done" /\ Len(endpoints) = 3 /\ Cardinality(DistinctEndpoints) = 2
    /\ \E j, k \in 1..Len(pool_results) :
          /\ pool_results[j].status = "ERROR"
          /\ pool_results[k].status = "OK"

\* C22: an object is reported stuck only if it has a deletionTimestamp, still
\* has a finalizer and at least --threshold-seconds have elapsed since its
\* deletionTimestamp; a terminating object with finalizers that is younger
\* than the threshold is classified terminating, not stuck.
C22_StuckOnlyPastThreshold ==
    (dFn = "k8s.consider" /\ dOut # NoOutput) =>
        /\ dOut.kind = "stuck" =>
              /\ dIn.deleting /\ dIn.finalizers > 0
              /\ dIn.ts.elapsed >= threshold_seconds
        /\ (dIn.deleting /\ dIn.finalizers > 0 /\ dIn.ts.elapsed < threshold_seconds) =>
              dOut.kind = "terminating"

\* C23: in every run, an item whose observed value differs from the value the
\* detector last recorded for it in an earlier run is reported, also when the
\* item was absent or unreadable in runs in between, and a change an earlier
\* run reported is not reported again.
C23_ChangeReportedOnce ==
    [][runs' = runs + 1 =>
          \A i \in Items :
              /\ (world'[i] \in Values /\ last_recorded[i] \notin {"none", world'[i]})
                    => i \in run_reports'
              /\ (world'[i] \in Values /\ <<i, last_recorded[i], world'[i]>> \in reported_changes)
                    => i \notin run_reports']_vars

====
